---- MODULE Spec2Model ----
(***************************************************************************)
(* Model of the retail order-management core: the entities of models.py    *)
(* (Client, Product, Order), the JSON repository of file_database.py, the  *)
(* aggregation functions of analysis.py, the order form of                 *)
(* shop_gui_classic.py and the repository of shop_gui_spices.py.           *)
(*                                                                         *)
(* Strings are sequences of one-character strings.  A float is an integer  *)
(* count of binary fractions: a price is a count of quarters (50.0 is 200) *)
(* and a weight a count of half kilograms (3.5 kg is 7), so a price times  *)
(* a weight, and every sum of them, is a count of eighths, exact here as   *)
(* it is in binary floating point.  A value rounded to two decimals is a   *)
(* count of hundredths.                                                    *)
(***************************************************************************)
EXTENDS Integers, Sequences, FiniteSets, TLC

VARIABLES
    form,             \* the raw strings handed to Client(...): [fio, phone, email]
    typed,            \* number of keys typed into the form so far
    made,             \* outcome of the last Client(...) call
    catalog,          \* products_catalog handed to Order.from_dict
    clients_map,      \* clients_map handed to Order.from_dict
    order,            \* the Order under test
    data,             \* the mapping produced by Order.to_dict (possibly edited)
    restored,         \* outcome of the last Order.from_dict call
    clients,          \* FileDatabase.clients
    orders,           \* FileDatabase.orders
    next_client_id,   \* FileDatabase.next_client_id
    next_order_id,    \* FileDatabase.next_order_id
    clients_file,     \* content of data/clients.json
    orders_file,      \* content of data/orders.json
    last_call,        \* the FileDatabase operation that produced this state
    printed,          \* the documents whose load error that operation printed
    got,              \* the list the last get_clients/get_orders call returned
    given,            \* the list of orders handed to the aggregation functions
    result,           \* outcome of the last aggregation call
    previous,         \* outcome of the aggregation call before it
    client_args,      \* the objects the last Client(...) call was given
    client_data,      \* the mapping produced by Client.to_dict
    client_restored,  \* outcome of the last Client.from_dict call
    product,          \* outcome of the last Product(...) call
    product_data,     \* the mapping produced by Product.to_dict (possibly edited)
    product_restored, \* outcome of the last Product.from_dict call
    entry_client_id,  \* shop_gui_classic: the text of the order form's client field
    entry_products,   \* shop_gui_classic: the text of the order form's products field
    messagebox,       \* shop_gui_classic: the message box the last handler showed
    catalog_file      \* shop_gui_spices: content of spice_data/catalog.json

vars == <<form, typed, made, catalog, clients_map, order, data, restored,
          clients, orders, next_client_id, next_order_id,
          clients_file, orders_file, last_call, printed, got,
          given, result, previous,
          client_args, client_data, client_restored, product, product_data,
          product_restored,
          entry_client_id, entry_products, messagebox, catalog_file>>

clientVars == <<form, typed, made>>
orderVars == <<catalog, clients_map, order, data, restored>>
dbVars == <<clients, orders, next_client_id, next_order_id,
            clients_file, orders_file, last_call, printed, got>>
analysisVars == <<given, result, previous>>
shopVars == <<entry_client_id, entry_products, messagebox, catalog_file>>
serialVars == <<client_args, client_data, client_restored, product, product_data,
                product_restored>>

(***************************************************************************)
(* Bounds of the model.                                                    *)
(***************************************************************************)
MaxPhoneKeys == 5      \* keys typed into the phone field
MaxEmailKeys == 5      \* keys typed into the email field
MaxList == 2           \* length of an order's products_list
MaxKgItems == 2        \* entries of an order's products_kg
MaxCalls == 3          \* entities held by one FileDatabase
MaxOrders == 2         \* orders in the list given to an aggregation function
MaxFormKeys == 3       \* keys typed into the products field of the order form
MaxEntities == 2       \* clients and orders held in a session with failing writes

(***************************************************************************)
(* Python values shared by the parts.                                      *)
(***************************************************************************)
None == [none |-> TRUE]

Max2(a, b) == IF a >= b THEN a ELSE b

(***************************************************************************)
(* Characters and str methods used by Client.__init__.                     *)
(***************************************************************************)
\* The characters "\d" matches in a str pattern: the decimal digits of Unicode,
\* ASCII's and the others ("ARABIC_INDIC_3" stands for U+0663).
Digits == {"0", "1", "2", "3", "4", "5", "6", "7", "8", "9", "ARABIC_INDIC_3"}

LowerLetters == {"a", "b", "c", "d", "e", "f", "g", "h", "i", "j", "k", "l", "m",
                 "n", "o", "p", "q", "r", "s", "t", "u", "v", "w", "x", "y", "z"}

UpperLetters == {"A", "B", "C", "D", "E", "F", "G", "H", "I", "J", "K", "L", "M",
                 "N", "O", "P", "Q", "R", "S", "T", "U", "V", "W", "X", "Y", "Z"}

Whitespace == {" ", "\t", "\n"}

\* str.lower() on one character, for the characters the model types.  A
\* character outside ASCII is written by its name: "CYR_YA" is the Cyrillic
\* capital letter YA and "cyr_ya" the small one.
LowerChar(c) ==
    CASE c = "U" -> "u"
      [] c = "R" -> "r"
      [] c = "CYR_YA" -> "cyr_ya"
      [] OTHER -> c

lower(s) == [i \in 1..Len(s) |-> LowerChar(s[i])]

\* str.strip(): leading and trailing whitespace removed.
strip(s) ==
    LET keep == {i \in 1..Len(s) : s[i] \notin Whitespace}
    IN  IF keep = {} THEN <<>>
        ELSE LET lo == CHOOSE i \in keep : \A j \in keep : i <= j
                 hi == CHOOSE i \in keep : \A j \in keep : i >= j
             IN  SubSeq(s, lo, hi)

\* The ends a pattern's "$" accepts: the end of the string, or just before a
\* final newline.
DollarEnds(s) ==
    {Len(s)} \cup (IF Len(s) > 0 /\ s[Len(s)] = "\n" THEN {Len(s) - 1} ELSE {})

AllIn(s, lo, hi, class) == \A i \in lo..hi : s[i] \in class

phone_pattern_match_unanchored(s) ==
    /\ Len(s) >= 12
    /\ s[1] = "+"
    /\ s[2] = "7"
    /\ AllIn(s, 3, 12, Digits)

\* Client.phone_pattern.match(s): ^\+7\d{10}$
phone_pattern_match(s) ==
    \E n \in DollarEnds(s) :
        /\ n = 12
        /\ s[1] = "+"
        /\ s[2] = "7"
        /\ AllIn(s, 3, n, Digits)

LocalChars == LowerLetters \cup UpperLetters \cup Digits \cup {".", "_", "%", "+", "-"}

DomainChars == LowerLetters \cup UpperLetters \cup Digits \cup {".", "-"}

TldChars == LowerLetters \cup UpperLetters

\* Client.email_pattern.match(s): ^[a-zA-Z0-9._%+-]+@[a-zA-Z0-9.-]+\.[a-zA-Z]{2,}$
\* at is the place of "@", dot the place of the "." before the last group.
email_pattern_match(s) ==
    \E n \in DollarEnds(s) :
        \E at \in 2..n : \E dot \in (at + 2)..(n - 2) :
            /\ AllIn(s, 1, at - 1, LocalChars)
            /\ s[at] = "@"
            /\ AllIn(s, at + 1, dot - 1, DomainChars)
            /\ s[dot] = "."
            /\ AllIn(s, dot + 1, n, TldChars)

(***************************************************************************)
(* Client                                                                  *)
(***************************************************************************)
Raised(type, field, echo) ==
    [ok |-> FALSE, value |-> None, type |-> type, field |-> field, echo |-> echo]

Returned(v) ==
    [ok |-> TRUE, value |-> v, type |-> "", field |-> "", echo |-> <<>>]

\* Client.validate: the phone is checked first, then the email.
Client_validate(self) ==
    IF self.phone # <<>> /\ ~phone_pattern_match(self.phone)
    THEN Raised("ValueError", "phone", self.phone)
    ELSE IF self.email # <<>> /\ ~email_pattern_match(self.email)
         THEN Raised("ValueError", "email", self.email)
         ELSE Returned(self)

Client_init(number, fio, phone, email) ==
    Client_validate([number |-> number,
                     fio |-> strip(fio),
                     phone |-> strip(phone),
                     email |-> lower(strip(email))])

\* Client(number, fio, phone, email) given any objects: an argument is None or
\* [str |-> s], and x.strip() on an object that is no str finds no attribute.
Client_call(number, fio, phone, email) ==
    IF "str" \notin DOMAIN fio THEN Raised("AttributeError", "fio", <<>>)
    ELSE IF "str" \notin DOMAIN phone THEN Raised("AttributeError", "phone", <<>>)
    ELSE IF "str" \notin DOMAIN email THEN Raised("AttributeError", "email", <<>>)
    ELSE Client_init(number, fio.str, phone.str, email.str)

Client_to_dict(self) ==
    [number |-> self.number, fio |-> self.fio, phone |-> self.phone, email |-> self.email]

Client_from_dict(d) == Client_init(d.number, d.fio, d.phone, d.email)

(***************************************************************************)
(* Product.  A price handed to Product(...) is [int |-> n], a whole        *)
(* number, [float |-> q], a float of q quarters, or [str |-> s], a text.   *)
(***************************************************************************)
\* int(s) of a text of ASCII digits.
RECURSIVE int_of_digits(_)
int_of_digits(s) ==
    IF s = <<>> THEN 0
    ELSE 10 * int_of_digits(SubSeq(s, 1, Len(s) - 1))
         + (CHOOSE n \in 0..9 : <<"0", "1", "2", "3", "4", "5", "6", "7", "8", "9">>[n + 1]
                                    = s[Len(s)])

\* float(price), in quarters.
float(price) ==
    IF "int" \in DOMAIN price THEN Returned(4 * price.int)
    ELSE IF "float" \in DOMAIN price THEN Returned(price.float)
    ELSE IF /\ strip(price.str) # <<>>
            /\ \A i \in DOMAIN strip(price.str) :
                   strip(price.str)[i] \in Digits \ {"ARABIC_INDIC_3"}
         THEN Returned(4 * int_of_digits(strip(price.str)))
         ELSE Raised("ValueError", "price", price.str)

\* Product(name, price, is_per_kg); id is the identity of the new object.
Product_init(id, name, price, is_per_kg) ==
    IF ~float(price).ok THEN float(price)
    ELSE Returned([id |-> id, name |-> strip(name), price |-> float(price).value,
                   is_per_kg |-> is_per_kg])

Product_to_dict_without_flag(self) ==
    [name |-> self.name, price |-> [float |-> self.price]]

Product_to_dict(self) ==
    [name |-> self.name, price |-> [float |-> self.price], is_per_kg |-> self.is_per_kg]

\* Product.from_dict: data.get("is_per_kg", False).
Product_from_dict(id, d) ==
    Product_init(id, d.name, d.price,
                 IF "is_per_kg" \in DOMAIN d THEN d.is_per_kg ELSE FALSE)

(***************************************************************************)
(* Python dict: insertion-ordered, a sequence of <<key, value>> pairs with *)
(* distinct keys.                                                          *)
(***************************************************************************)
DictKeys(d) == {d[i][1] : i \in DOMAIN d}

DictHas(d, k) == \E i \in DOMAIN d : d[i][1] = k

DictGet(d, k) == d[CHOOSE i \in DOMAIN d : d[i][1] = k][2]

\* d[k] = v: an existing key keeps its place and takes the new value.
DictPut(d, k, v) ==
    IF DictHas(d, k)
    THEN [i \in DOMAIN d |-> IF d[i][1] = k THEN <<k, v>> ELSE d[i]]
    ELSE Append(d, <<k, v>>)

DictGetOrNone(d, k) ==
    Returned(IF DictHas(d, k) THEN DictGet(d, k) ELSE None)

\* d[k] as an expression: KeyError when k is no key of d.
DictIndex(d, k) ==
    IF DictHas(d, k) THEN Returned(DictGet(d, k)) ELSE Raised("KeyError", "", <<>>)

\* {k: v for k, v in pairs}
RECURSIVE DictOf(_)
DictOf(pairs) ==
    IF pairs = <<>> THEN <<>>
    ELSE DictPut(DictOf(SubSeq(pairs, 1, Len(pairs) - 1)),
                 pairs[Len(pairs)][1], pairs[Len(pairs)][2])

\* dict == dict: the same keys with the same values, in any order.
DictEq(d, e) ==
    /\ DictKeys(d) = DictKeys(e)
    /\ \A k \in DictKeys(d) : DictGet(d, k) = DictGet(e, k)

(***************************************************************************)
(* datetime.isoformat / datetime.fromisoformat.  A datetime is             *)
(* [day, second, microsecond]; the text is its date part, its time part    *)
(* and, only when microsecond is not 0, a fraction.                        *)
(***************************************************************************)
isoformat_seconds(d) ==
    [wellformed |-> TRUE, ymd |-> d.day, hms |-> d.second,
     has_fraction |-> FALSE, fraction |-> 0]

isoformat(d) ==
    [wellformed |-> TRUE, ymd |-> d.day, hms |-> d.second,
     has_fraction |-> d.microsecond # 0, fraction |-> d.microsecond]

fromisoformat(t) ==
    IF ~t.wellformed THEN Raised("ValueError", "date", <<>>)
    ELSE Returned([day |-> t.ymd, second |-> t.hms,
                   microsecond |-> IF t.has_fraction THEN t.fraction ELSE 0])

(***************************************************************************)
(* Order.  A Product is [id, name, price, is_per_kg]: id is the object's   *)
(* identity (Product defines neither __eq__ nor __hash__, so a dict keyed  *)
(* by products is keyed by identity).                                      *)
(***************************************************************************)
Order_init(number, client, products_list, products_kg, date, now) ==
    [number |-> number,
     client |-> client,
     products_list |-> products_list,
     products_kg |-> products_kg,
     date |-> IF date = None THEN now ELSE date]

RECURSIVE SumPrices(_)
SumPrices(products_list) ==
    IF products_list = <<>> THEN 0
    ELSE products_list[1].price + SumPrices(Tail(products_list))

RECURSIVE SumPriceKg(_)
SumPriceKg(products_kg) ==
    IF products_kg = <<>> THEN 0
    ELSE products_kg[1][1].price * products_kg[1][2] + SumPriceKg(Tail(products_kg))

\* The unrounded total, in eighths.
Order_total(self) == 2 * SumPrices(self.products_list) + SumPriceKg(self.products_kg)

RoundHalfUp(x8) == (x8 * 100 + 4) \div 8

\* round(x, 2) of a float: the nearest hundredth of its exact value, a tie
\* going to the even hundredth.
round2(x8) ==
    LET q == (x8 * 100) \div 8
        r == (x8 * 100) % 8
    IN  IF r < 4 THEN q
        ELSE IF r > 4 THEN q + 1
        ELSE IF q % 2 = 0 THEN q ELSE q + 1

\* Order.total_cost, in hundredths.
Order_total_cost(self) == round2(Order_total(self))

Order_to_dict(self) ==
    [number |-> self.number,
     client_number |-> self.client.number,
     products_list |-> [i \in 1..Len(self.products_list) |-> self.products_list[i].name],
     products_kg |-> DictOf([i \in 1..Len(self.products_kg) |->
                                <<self.products_kg[i][1].name, self.products_kg[i][2]>>]),
     date |-> isoformat(self.date)]

\* name_to_product = {p.name: p for p in products_catalog}
NameToProduct(products_catalog) ==
    DictOf([i \in 1..Len(products_catalog) |->
               <<products_catalog[i].name, products_catalog[i]>>])

\* A resolution that takes each product once.
RECURSIVE ResolveListOnce(_, _)
ResolveListOnce(names, name_to_product) ==
    IF names = <<>> THEN <<>>
    ELSE LET rest == ResolveListOnce(SubSeq(names, 1, Len(names) - 1), name_to_product)
             name == names[Len(names)]
         IN  IF DictHas(name_to_product, name)
                  /\ \A i \in DOMAIN rest : rest[i] # DictGet(name_to_product, name)
             THEN Append(rest, DictGet(name_to_product, name))
             ELSE rest

\* The loop of lines 120-123: the names the catalog knows, each as its product.
RECURSIVE ResolveList(_, _)
ResolveList(names, name_to_product) ==
    IF names = <<>> THEN <<>>
    ELSE LET rest == ResolveList(SubSeq(names, 1, Len(names) - 1), name_to_product)
             name == names[Len(names)]
         IN  IF DictHas(name_to_product, name)
             THEN Append(rest, DictGet(name_to_product, name))
             ELSE rest

\* A resolution that keeps every weight entry the catalog names.
RECURSIVE ResolveKgAnyProduct(_, _)
ResolveKgAnyProduct(items, name_to_product) ==
    IF items = <<>> THEN <<>>
    ELSE LET rest == ResolveKgAnyProduct(SubSeq(items, 1, Len(items) - 1), name_to_product)
             name == items[Len(items)][1]
             kg == items[Len(items)][2]
         IN  IF DictHas(name_to_product, name)
             THEN DictPut(rest, DictGet(name_to_product, name), kg)
             ELSE rest

\* The loop of lines 125-128.
RECURSIVE ResolveKg(_, _)
ResolveKg(items, name_to_product) ==
    IF items = <<>> THEN <<>>
    ELSE LET rest == ResolveKg(SubSeq(items, 1, Len(items) - 1), name_to_product)
             name == items[Len(items)][1]
             kg == items[Len(items)][2]
         IN  IF DictHas(name_to_product, name) /\ DictGet(name_to_product, name).is_per_kg
             THEN DictPut(rest, DictGet(name_to_product, name), kg)
             ELSE rest

Order_from_dict(d, cmap, products_catalog) ==
    IF ~DictIndex(cmap, d.client_number).ok
    THEN DictIndex(cmap, d.client_number)
    ELSE LET client == DictIndex(cmap, d.client_number).value
             name_to_product == NameToProduct(products_catalog)
             products_list == ResolveList(d.products_list, name_to_product)
             products_kg == ResolveKg(d.products_kg, name_to_product)
             date == fromisoformat(d.date)
         IN  IF ~date.ok THEN date
             ELSE Returned(Order_init(d.number, client, products_list, products_kg,
                                      date.value, date.value))

(***************************************************************************)
(* FileDatabase.  A JSON document is [exists, kind, content]: kind tells   *)
(* what reading it gives ("list": json.load returns the list content;      *)
(* "not_json": the text is no JSON; "undecodable": the bytes are no UTF-8  *)
(* text).                                                                  *)
(***************************************************************************)
NoFile == [exists |-> FALSE, kind |-> "list", content |-> <<>>]

\* with open(file, "r", encoding="utf-8") as f: data = json.load(f)
json_load(file) ==
    IF file.kind = "list" THEN Returned(file.content)
    ELSE IF file.kind = "not_json" THEN Raised("JSONDecodeError", "", <<>>)
    ELSE Raised("UnicodeDecodeError", "", <<>>)

SomeRaised(results) == \E i \in DOMAIN results : ~results[i].ok

Values(results) == [i \in DOMAIN results |-> results[i].value]

\* The try block of _load_clients.
try_load_clients(file) ==
    IF ~json_load(file).ok THEN json_load(file)
    ELSE LET results == [i \in DOMAIN file.content |-> Client_from_dict(file.content[i])]
         IN  IF SomeRaised(results)
             THEN results[CHOOSE i \in DOMAIN results :
                             ~results[i].ok /\ \A j \in 1..(i - 1) : results[j].ok]
             ELSE Returned(Values(results))

\* A load that keeps the records that can be reconstructed.
load_clients_valid_records(file) ==
    IF ~file.exists \/ ~json_load(file).ok THEN <<>>
    ELSE SelectSeq([i \in DOMAIN file.content |-> Client_from_dict(file.content[i]).value],
                   LAMBDA c : c # None)

\* _load_clients: any exception gives the empty list.
load_clients(file) ==
    IF ~file.exists THEN <<>>
    ELSE IF try_load_clients(file).ok THEN try_load_clients(file).value
    ELSE <<>>

\* Whether _load_clients prints its message (line 40).
load_clients_prints(file) == file.exists /\ ~try_load_clients(file).ok

\* The call Order.from_dict(*args): from_dict takes data, clients_map and
\* products_catalog, none of them optional, and any other number of arguments
\* raises TypeError.
Order_from_dict_call(args) ==
    IF Len(args) # 3 THEN Raised("TypeError", "products_catalog", <<>>)
    ELSE Order_from_dict(args[1], args[2], args[3])

\* {c.number: c for c in self.clients}
ClientsMap(cs) == DictOf([i \in DOMAIN cs |-> <<cs[i].number, cs[i]>>])

\* The try block of _load_orders: calls Order.from_dict(o, clients_map).
try_load_orders(file, cs) ==
    IF ~json_load(file).ok THEN json_load(file)
    ELSE LET results == [i \in DOMAIN file.content |->
                            Order_from_dict_call(<<file.content[i], ClientsMap(cs)>>)]
         IN  IF SomeRaised(results)
             THEN results[CHOOSE i \in DOMAIN results :
                             ~results[i].ok /\ \A j \in 1..(i - 1) : results[j].ok]
             ELSE Returned(Values(results))

\* _load_orders: nothing is read when there is no document or no client; any
\* exception gives the empty list.
load_orders(file, cs) ==
    IF ~file.exists \/ cs = <<>> THEN <<>>
    ELSE IF try_load_orders(file, cs).ok THEN try_load_orders(file, cs).value
    ELSE <<>>

\* Whether _load_orders prints its message (line 52).
load_orders_prints(file, cs) ==
    file.exists /\ cs # <<>> /\ ~try_load_orders(file, cs).ok

\* max((x.number for x in xs), default=0) + 1
RECURSIVE MaxNumberOf(_)
MaxNumberOf(xs) ==
    IF xs = <<>> THEN 0 ELSE Max2(xs[1].number, MaxNumberOf(Tail(xs)))

FirstFreeId(xs) == MaxNumberOf(xs) + 1

save_clients_stale(cs) ==
    [exists |-> TRUE, kind |-> "list",
     content |-> [i \in 1..(Len(cs) - 1) |-> Client_to_dict(cs[i])]]

save_clients(cs) ==
    [exists |-> TRUE, kind |-> "list",
     content |-> [i \in DOMAIN cs |-> Client_to_dict(cs[i])]]

save_orders(os) ==
    [exists |-> TRUE, kind |-> "list",
     content |-> [i \in DOMAIN os |-> Order_to_dict(os[i])]]

AdvanceNoMax(counter, number) == number + 1

\* A list handed to a caller is [of, shared, items, edited]: of names the
\* collection it was made from, shared tells whether it is the repository's own
\* list object, edited whether the caller has changed it since.
list_itself(of, xs) == [of |-> of, shared |-> TRUE, items |-> xs, edited |-> FALSE]

\* xs.copy(): a new list object holding the same elements.
list_copy(of, xs) == [of |-> of, shared |-> FALSE, items |-> xs, edited |-> FALSE]

\* max(self.next_..._id, entity.number + 1)
Advance(counter, number) == Max2(counter, number + 1)

(***************************************************************************)
(* Inputs.                                                                 *)
(***************************************************************************)
SeqUpTo(S, n) == UNION {[1..k -> S] : k \in 0..n}

Fio == <<"I", "v", " ">>

ValidPhone == <<"+", "7", "9", "9", "9", "1", "2", "9", "9", "9", "1", "2">>

ValidEmail == <<"u", "@", "u", ".", "r", "u">>

\* What one key press (or paste) adds to the phone field.
PhoneKeys == {<<"+", "7">>, <<"+">>, <<"9", "9", "9", "1", "2">>,
              <<"3", "4", "5", "6">>, <<"8">>, <<" ">>}

\* What one key press (or paste) adds to the email field.
EmailKeys == {<<"u">>, <<"@">>, <<".">>, <<"R", "U">>, <<" ">>, <<"CYR_YA">>}

FixedPhones == {<<>>, ValidPhone}

FixedEmails == {<<>>, ValidEmail}

SampleClient(number, fio) == Client_init(number, fio, ValidPhone, ValidEmail).value

\* Product("Notebook", 75000), Product("Sugar", 50, True) and a second object
\* named "Sugar", Product("Sugar", 0.75, True).
Laptop == [id |-> 1, name |-> "Notebook", price |-> 300000, is_per_kg |-> FALSE]

Sugar == [id |-> 2, name |-> "Sugar", price |-> 200, is_per_kg |-> TRUE]

SugarB == [id |-> 3, name |-> "Sugar", price |-> 3, is_per_kg |-> TRUE]

Products == {Laptop, Sugar, SugarB}

\* 3.5 kg and 5 kg.
KgValues == {7, 10}

KgDicts ==
    {d \in SeqUpTo(Products \X KgValues, MaxKgItems) :
        \A i, j \in DOMAIN d : d[i][1] = d[j][1] => i = j}

Midnight == [day |-> 1, second |-> 0, microsecond |-> 0]

Now == [day |-> 2, second |-> 7, microsecond |-> 5]

Ivanov == SampleClient(1, Fio)

Namesake == SampleClient(1, <<"P">>)

Petrov == SampleClient(2, <<"P">>)

\* The catalogs and client maps Order.from_dict is called with.
Environments ==
    {[catalog |-> <<Laptop, Sugar>>, clients_map |-> <<<<1, Ivanov>>>>],
     [catalog |-> <<Laptop, Sugar, SugarB>>, clients_map |-> <<<<1, Ivanov>>, <<2, Petrov>>>>],
     [catalog |-> <<SugarB, Sugar>>, clients_map |-> <<<<1, Ivanov>>>>],
     [catalog |-> <<Laptop, Sugar>>, clients_map |-> <<<<2, Petrov>>>>],
     [catalog |-> <<Laptop, Sugar, SugarB>>, clients_map |-> <<<<1, Namesake>>>>],
     [catalog |-> <<>>, clients_map |-> <<<<1, Ivanov>>>>]}

\* The line items of the orders the repository is given.
Baskets ==
    {[products_list |-> <<Laptop, Laptop>>, products_kg |-> <<>>, date |-> Midnight],
     [products_list |-> <<Laptop>>, products_kg |-> <<<<Sugar, 7>>>>, date |-> Now]}

(***************************************************************************)
(* Client(...) called on what a form holds.                                *)
(***************************************************************************)
IdleClient == form = [fio |-> Fio, phone |-> <<>>, email |-> <<>>] /\ typed = 0 /\ made = None

IdleOrder ==
    /\ catalog = <<>>
    /\ clients_map = <<>>
    /\ order = None
    /\ data = None
    /\ restored = None

IdleDB ==
    /\ clients = <<>>
    /\ orders = <<>>
    /\ next_client_id = 1
    /\ next_order_id = 1
    /\ clients_file = NoFile
    /\ orders_file = NoFile
    /\ last_call = "init"
    /\ printed = {}
    /\ got = None

IdleAnalysis == given = <<>> /\ result = None /\ previous = None

IdleShop ==
    /\ entry_client_id = <<>>
    /\ entry_products = <<>>
    /\ messagebox = None
    /\ catalog_file = NoFile

IdleSerial ==
    /\ client_args = None
    /\ client_data = None
    /\ client_restored = None
    /\ product = None
    /\ product_data = None
    /\ product_restored = None

InitClient == IdleClient /\ IdleOrder /\ IdleDB /\ IdleAnalysis /\ IdleSerial /\ IdleShop

PastePhone ==
    /\ form.phone = <<>>
    /\ form' = [form EXCEPT !.phone = ValidPhone]
    /\ made' = None
    /\ UNCHANGED <<shopVars, analysisVars, serialVars, typed, orderVars, dbVars>>

PasteEmail ==
    /\ form.email = <<>>
    /\ form' = [form EXCEPT !.email = ValidEmail]
    /\ made' = None
    /\ UNCHANGED <<shopVars, analysisVars, serialVars, typed, orderVars, dbVars>>

TypePhone ==
    /\ typed < MaxPhoneKeys
    /\ form.email \in FixedEmails
    /\ \E k \in PhoneKeys : form' = [form EXCEPT !.phone = @ \o k]
    /\ typed' = typed + 1
    /\ made' = None
    /\ UNCHANGED <<shopVars, analysisVars, serialVars, orderVars, dbVars>>

TypeEmail ==
    /\ typed < MaxEmailKeys
    /\ form.phone \in FixedPhones
    /\ \E k \in EmailKeys : form' = [form EXCEPT !.email = @ \o k]
    /\ typed' = typed + 1
    /\ made' = None
    /\ UNCHANGED <<shopVars, analysisVars, serialVars, orderVars, dbVars>>

NewClient ==
    /\ made = None
    /\ made' = Client_init(1, form.fio, form.phone, form.email)
    /\ UNCHANGED <<shopVars, analysisVars, serialVars, form, typed, orderVars, dbVars>>

NextClient == PastePhone \/ PasteEmail \/ TypePhone \/ TypeEmail \/ NewClient

ClientSpec == InitClient /\ [][NextClient]_vars

(***************************************************************************)
(* Order(...), Order.to_dict and Order.from_dict.                          *)
(***************************************************************************)
InitOrder ==
    /\ \E env \in Environments :
        /\ catalog = env.catalog
        /\ clients_map = env.clients_map
    /\ order = None
    /\ data = None
    /\ restored = None
    /\ IdleClient
    /\ IdleDB
    /\ IdleAnalysis
    /\ IdleSerial
    /\ IdleShop

NewOrder ==
    /\ order = None
    /\ \E products_list \in SeqUpTo(Products, MaxList), products_kg \in KgDicts,
          date \in {None, Midnight} :
        order' = Order_init(1, Ivanov, products_list, products_kg, date, Now)
    /\ UNCHANGED <<shopVars, analysisVars, serialVars, catalog, clients_map, data, restored, clientVars, dbVars>>

ToDict ==
    /\ order # None
    /\ data = None
    /\ data' = Order_to_dict(order)
    /\ UNCHANGED <<shopVars, analysisVars, serialVars, catalog, clients_map, order, restored, clientVars, dbVars>>

\* The stored record edited by hand: another client number, a name no product
\* has, a date that is no ISO-8601 text.
EditData ==
    /\ data # None
    /\ data = Order_to_dict(order)
    /\ restored = None
    /\ \/ data' = [data EXCEPT !.client_number = 3]
       \/ data' = [data EXCEPT !.products_list = Append(@, "Ghost")]
       \/ data' = [data EXCEPT !.date.wellformed = FALSE]
    /\ UNCHANGED <<shopVars, analysisVars, serialVars, catalog, clients_map, order, restored, clientVars, dbVars>>

FromDict ==
    /\ data # None
    /\ restored = None
    /\ restored' = Order_from_dict(data, clients_map, catalog)
    /\ UNCHANGED <<shopVars, analysisVars, serialVars, catalog, clients_map, order, data, clientVars, dbVars>>

NextOrder == NewOrder \/ ToDict \/ EditData \/ FromDict

OrderSpec == InitOrder /\ [][NextOrder]_vars

(***************************************************************************)
(* FileDatabase on one data directory.                                     *)
(***************************************************************************)
Init == IdleDB /\ IdleClient /\ IdleOrder /\ IdleAnalysis /\ IdleSerial /\ IdleShop

\* The number a caller gives a new entity: the next free one, one chosen by
\* hand above it (leaving a gap), or 1.
ChosenNumbers(counter) == {counter, counter + 2, 1}

add_client ==
    /\ Len(clients) + Len(orders) < MaxCalls
    /\ \E number \in ChosenNumbers(next_client_id), fio \in {Fio} :
        LET client == SampleClient(number, fio)
        IN  /\ clients' = Append(clients, client)
            /\ next_client_id' = Advance(next_client_id, client.number)
    /\ clients_file' = save_clients(clients')
    /\ last_call' = "add_client"
    /\ printed' = {}
    /\ UNCHANGED <<shopVars, analysisVars, serialVars, got, orders, next_order_id, orders_file, clientVars, orderVars>>

add_order ==
    /\ Len(clients) + Len(orders) < MaxCalls
    /\ \E number \in ChosenNumbers(next_order_id), i \in DOMAIN clients, b \in Baskets :
        LET o == Order_init(number, clients[i], b.products_list, b.products_kg, b.date, Now)
        IN  /\ orders' = Append(orders, o)
            /\ next_order_id' = Advance(next_order_id, o.number)
    /\ orders_file' = save_orders(orders')
    /\ last_call' = "add_order"
    /\ printed' = {}
    /\ UNCHANGED <<shopVars, analysisVars, serialVars, got, clients, next_client_id, clients_file, clientVars, orderVars>>

\* FileDatabase(data_dir) constructed again on the same directory.
Restart ==
    /\ clients' = load_clients(clients_file)
    /\ orders' = load_orders(orders_file, clients')
    /\ next_client_id' = FirstFreeId(clients')
    /\ next_order_id' = FirstFreeId(orders')
    /\ last_call' = "restart"
    /\ printed' = {doc \in {"clients", "orders"} :
                       IF doc = "clients" THEN load_clients_prints(clients_file)
                       ELSE load_orders_prints(orders_file, clients')}
    /\ UNCHANGED <<shopVars, analysisVars, serialVars, got, clients_file, orders_file,
                   clientVars, orderVars>>

\* What a document holds after something other than this program wrote it:
\* text that is no JSON, or bytes that are no UTF-8 text.
Damaged == {[exists |-> TRUE, kind |-> k, content |-> <<>>] : k \in {"not_json", "undecodable"}}

\* clients.json damaged, deleted, or its first record given the phone "8".
TamperClients ==
    /\ \/ clients_file' \in Damaged
       \/ clients_file.exists /\ clients_file' = NoFile
       \/ /\ clients_file.kind = "list"
          /\ clients_file.content # <<>>
          /\ clients_file' = [clients_file EXCEPT !.content[1].phone = <<"8">>]
    /\ last_call' = "tamper"
    /\ printed' = {}
    /\ UNCHANGED <<shopVars, analysisVars, serialVars, got, clients, orders, next_client_id,
                   next_order_id, orders_file, clientVars, orderVars>>

\* orders.json damaged or deleted.
TamperOrders ==
    /\ \/ orders_file' \in Damaged
       \/ orders_file.exists /\ orders_file' = NoFile
    /\ last_call' = "tamper"
    /\ printed' = {}
    /\ UNCHANGED <<shopVars, analysisVars, serialVars, got, clients, orders, next_client_id,
                   next_order_id, clients_file, clientVars, orderVars>>

Next == add_client \/ add_order \/ Restart

Spec == Init /\ [][Next]_vars

(***************************************************************************)
(* get_clients / get_orders, and a caller that changes the list it got.    *)
(***************************************************************************)
get_clients ==
    /\ got' = list_copy("clients", clients)
    /\ last_call' = "get_clients"
    /\ UNCHANGED <<shopVars, analysisVars, serialVars, clients, orders, next_client_id, next_order_id,
                   clients_file, orders_file, printed, clientVars, orderVars>>

get_orders ==
    /\ got' = list_copy("orders", orders)
    /\ last_call' = "get_orders"
    /\ UNCHANGED <<shopVars, analysisVars, serialVars, clients, orders, next_client_id, next_order_id,
                   clients_file, orders_file, printed, clientVars, orderVars>>

\* The element a caller appends to a list of clients or of orders.
NewElement(of) ==
    IF of = "clients" THEN SampleClient(9, <<"P">>)
    ELSE Order_init(9, Ivanov, <<Laptop>>, <<>>, Midnight, Now)

Reverse(xs) == [i \in 1..Len(xs) |-> xs[Len(xs) + 1 - i]]

\* The caller's statement has replaced the items of the list it holds by new:
\* a list object the repository also holds changes there too.
CallerWrites(new, call) ==
    /\ got' = [got EXCEPT !.items = new, !.edited = TRUE]
    /\ clients' = IF got.shared /\ got.of = "clients" THEN new ELSE clients
    /\ orders' = IF got.shared /\ got.of = "orders" THEN new ELSE orders
    /\ last_call' = call
    /\ UNCHANGED <<shopVars, analysisVars, serialVars, next_client_id, next_order_id,
                   clients_file, orders_file, printed, clientVars, orderVars>>

\* lst.append(x)
caller_append ==
    /\ got # None
    /\ ~got.edited
    /\ CallerWrites(Append(got.items, NewElement(got.of)), "caller_append")

\* lst.pop(0)
caller_remove ==
    /\ got # None
    /\ ~got.edited
    /\ got.items # <<>>
    /\ CallerWrites(Tail(got.items), "caller_remove")

\* lst.reverse()
caller_reverse ==
    /\ got # None
    /\ ~got.edited
    /\ CallerWrites(Reverse(got.items), "caller_reverse")

NextCopy ==
    \/ add_client
    \/ add_order
    \/ get_clients
    \/ get_orders
    \/ caller_append
    \/ caller_remove
    \/ caller_reverse

CopySpec == Init /\ [][NextCopy]_vars

(***************************************************************************)
(* FileDatabase constructed on a data directory whose documents an earlier *)
(* run wrote and something else may have edited since.                     *)
(***************************************************************************)
StoredClients == {<<>>, <<Ivanov>>, <<Petrov>>, <<Ivanov, Petrov>>}

StoredOrders ==
    {<<>>} \cup {<<Order_init(1, Ivanov, b.products_list, b.products_kg, b.date, Now)>> :
                    b \in Baskets}

InitLoad ==
    /\ \E cs \in StoredClients :
        clients_file = IF cs = <<>> THEN NoFile ELSE save_clients(cs)
    /\ \E os \in StoredOrders :
        orders_file = IF os = <<>> THEN NoFile ELSE save_orders(os)
    /\ clients = <<>>
    /\ orders = <<>>
    /\ next_client_id = 1
    /\ next_order_id = 1
    /\ last_call = "init"
    /\ printed = {}
    /\ got = None
    /\ IdleClient
    /\ IdleOrder
    /\ IdleAnalysis
    /\ IdleSerial
    /\ IdleShop

NextLoad == Restart \/ TamperClients \/ TamperOrders

LoadSpec == InitLoad /\ [][NextLoad]_vars

(***************************************************************************)
(* A data directory whose documents can fail to be written: open(file,     *)
(* "w") raises and leaves the document as it was, or the write stops after *)
(* the document was truncated and leaves text that is no JSON.             *)
(***************************************************************************)
FailedWrite(file) == {file, [exists |-> TRUE, kind |-> "not_json", content |-> <<>>]}

\* add_client when _save_clients raises: lines 68-69 have run.
add_client_write_fails ==
    /\ Len(clients) + Len(orders) < MaxEntities
    /\ \E number \in ChosenNumbers(next_client_id) :
        LET client == SampleClient(number, Fio)
        IN  /\ clients' = Append(clients, client)
            /\ next_client_id' = Advance(next_client_id, client.number)
    /\ clients_file' \in FailedWrite(clients_file)
    /\ last_call' = "add_client raised"
    /\ printed' = {}
    /\ UNCHANGED <<shopVars, analysisVars, serialVars, got, orders, next_order_id, orders_file,
                   clientVars, orderVars>>

\* add_order when _save_orders raises: lines 80-81 have run.
add_order_write_fails ==
    /\ Len(clients) + Len(orders) < MaxEntities
    /\ \E number \in ChosenNumbers(next_order_id), i \in DOMAIN clients, b \in Baskets :
        LET o == Order_init(number, clients[i], b.products_list, b.products_kg, b.date, Now)
        IN  /\ orders' = Append(orders, o)
            /\ next_order_id' = Advance(next_order_id, o.number)
    /\ orders_file' \in FailedWrite(orders_file)
    /\ last_call' = "add_order raised"
    /\ printed' = {}
    /\ UNCHANGED <<shopVars, analysisVars, serialVars, got, clients, next_client_id, clients_file,
                   clientVars, orderVars>>

\* The documents a data directory holds when the program starts: written by
\* an earlier run, damaged since, or holding a record with the phone "8".
FoundClients ==
    {NoFile} \cup {save_clients(cs) : cs \in StoredClients \ {<<>>}} \cup Damaged
        \cup {[save_clients(<<Ivanov, Petrov>>) EXCEPT !.content[2].phone = <<"8">>]}

FoundOrders ==
    {NoFile} \cup {save_orders(os) : os \in StoredOrders \ {<<>>}} \cup Damaged

\* FileDatabase(data_dir) constructed on such a directory.
InitDisk ==
    /\ clients_file \in FoundClients
    /\ orders_file \in FoundOrders
    /\ clients = load_clients(clients_file)
    /\ orders = load_orders(orders_file, clients)
    /\ next_client_id = FirstFreeId(clients)
    /\ next_order_id = FirstFreeId(orders)
    /\ last_call = "restart"
    /\ printed = {doc \in {"clients", "orders"} :
                     IF doc = "clients" THEN load_clients_prints(clients_file)
                     ELSE load_orders_prints(orders_file, clients)}
    /\ got = None
    /\ IdleClient
    /\ IdleOrder
    /\ IdleAnalysis
    /\ IdleSerial
    /\ IdleShop

add_client_written ==
    /\ Len(clients) + Len(orders) < MaxEntities
    /\ add_client

add_order_written ==
    /\ Len(clients) + Len(orders) < MaxEntities
    /\ add_order

NextDisk ==
    \/ add_client_written
    \/ add_order_written
    \/ add_client_write_fails
    \/ add_order_write_fails

DiskSpec == InitDisk /\ [][NextDisk]_vars

(***************************************************************************)
(* The aggregation functions of analysis.py and orders_to_df of models.py. *)
(* A DataFrame is the sequence of its rows, a Series the sequence of its   *)
(* <<index, value>> pairs.  ProductPrice and Price are counts of quarters, *)
(* Quantity a count of halves (1 is 2) and Revenue a count of eighths.     *)
(***************************************************************************)
analysis_Product(name, price) == [name |-> name, price |-> price]

analysis_Client(number, fio) == [number |-> number, fio |-> fio]

analysis_Order(number, client, products, date) ==
    [number |-> number, client |-> client, products |-> products, date |-> date]

\* obj.name: AttributeError when the object has no such attribute.
getattr(obj, name) ==
    IF name \in DOMAIN obj THEN Returned(obj[name]) ELSE Raised("AttributeError", name, <<>>)

\* The list after "while orders: order = orders.pop(0)" has run over it.
popped(os) == <<>>

\* The list after "for order in orders:" has run over it.
iterated(os) == os

date_and_time_of(d) == d.day * 86400 + d.second

\* datetime.date(): the calendar day, the time of day dropped.
date_of(d) == d.day

\* The rows the inner loop of analysis.orders_to_df appends for one order.
\* Rows with one row of no product for an order that has no product.
analysis_rows_or_blank(o) ==
    IF o.products = <<>>
    THEN <<[OrderNumber |-> o.number,
            ClientNumber |-> o.client.number,
            ClientFIO |-> o.client.fio,
            ProductName |-> "",
            ProductPrice |-> 0,
            OrderDate |-> o.date.day]>>
    ELSE [i \in DOMAIN o.products |->
             [OrderNumber |-> o.number,
              ClientNumber |-> o.client.number,
              ClientFIO |-> o.client.fio,
              ProductName |-> o.products[i].name,
              ProductPrice |-> o.products[i].price,
              OrderDate |-> o.date.day]]

analysis_rows(o) ==
    [i \in DOMAIN o.products |->
        [OrderNumber |-> o.number,
         ClientNumber |-> o.client.number,
         ClientFIO |-> o.client.fio,
         ProductName |-> o.products[i].name,
         ProductPrice |-> o.products[i].price,
         OrderDate |-> date_of(o.date)]]

\* orders_to_df of analysis.py.
RECURSIVE analysis_orders_to_df(_)
analysis_orders_to_df(os) ==
    IF os = <<>> THEN Returned(<<>>)
    ELSE LET before == analysis_orders_to_df(SubSeq(os, 1, Len(os) - 1))
             o == os[Len(os)]
         IN  IF ~before.ok THEN before
             ELSE IF ~getattr(o, "products").ok THEN getattr(o, "products")
             ELSE Returned(before.value \o analysis_rows(o))

models_rows_by_price(o) ==
    [i \in DOMAIN o.products_list |->
        [OrderNumber |-> o.number,
         ClientNumber |-> o.client.number,
         ClientFIO |-> o.client.fio,
         ProductName |-> o.products_list[i].name,
         Price |-> o.products_list[i].price,
         Quantity |-> 2,
         Revenue |-> 2 * o.products_list[i].price,
         IsPerKg |-> FALSE,
         OrderDate |-> date_of(o.date)]]
    \o
    [i \in DOMAIN o.products_kg |->
        [OrderNumber |-> o.number,
         ClientNumber |-> o.client.number,
         ClientFIO |-> o.client.fio,
         ProductName |-> o.products_kg[i][1].name,
         Price |-> o.products_kg[i][1].price,
         Quantity |-> o.products_kg[i][2],
         Revenue |-> 2 * o.products_kg[i][1].price,
         IsPerKg |-> TRUE,
         OrderDate |-> date_of(o.date)]]

\* The rows orders_to_df of models.py appends for one order: the unit-priced
\* products, then the weighed ones.
models_rows(o) ==
    [i \in DOMAIN o.products_list |->
        [OrderNumber |-> o.number,
         ClientNumber |-> o.client.number,
         ClientFIO |-> o.client.fio,
         ProductName |-> o.products_list[i].name,
         Price |-> o.products_list[i].price,
         Quantity |-> 2,
         Revenue |-> 2 * o.products_list[i].price,
         IsPerKg |-> FALSE,
         OrderDate |-> date_of(o.date)]]
    \o
    [i \in DOMAIN o.products_kg |->
        [OrderNumber |-> o.number,
         ClientNumber |-> o.client.number,
         ClientFIO |-> o.client.fio,
         ProductName |-> o.products_kg[i][1].name,
         Price |-> o.products_kg[i][1].price,
         Quantity |-> o.products_kg[i][2],
         Revenue |-> o.products_kg[i][1].price * o.products_kg[i][2],
         IsPerKg |-> TRUE,
         OrderDate |-> date_of(o.date)]]

\* orders_to_df of models.py.
RECURSIVE orders_to_df(_)
orders_to_df(os) ==
    IF os = <<>> THEN Returned(<<>>)
    ELSE LET before == orders_to_df(SubSeq(os, 1, Len(os) - 1))
             o == os[Len(os)]
         IN  IF ~before.ok THEN before
             ELSE IF ~getattr(o, "products_list").ok THEN getattr(o, "products_list")
             ELSE IF ~getattr(o, "products_kg").ok THEN getattr(o, "products_kg")
             ELSE Returned(before.value \o models_rows(o))

\* The characters of the names below, in code point order.
CodePoints ==
    <<" ", "G", "I", "N", "P", "S", "a", "b", "e", "g", "h", "k", "o", "r", "s", "t", "u", "v">>

ord(c) == CHOOSE i \in DOMAIN CodePoints : CodePoints[i] = c

\* a < b on str.
RECURSIVE str_less(_, _)
str_less(a, b) ==
    IF b = <<>> THEN FALSE
    ELSE IF a = <<>> THEN TRUE
    ELSE IF a[1] = b[1] THEN str_less(Tail(a), Tail(b))
    ELSE ord(a[1]) < ord(b[1])

\* The characters of a product name.
Spelling(name) ==
    CASE name = "Notebook" -> <<"N", "o", "t", "e", "b", "o", "o", "k">>
      [] name = "Sugar" -> <<"S", "u", "g", "a", "r">>
      [] name = "Ghost" -> <<"G", "h", "o", "s", "t">>

\* a < b on the values of a column.
value_less(column, a, b) ==
    CASE column = "ClientFIO" -> str_less(a, b)
      [] column = "ProductName" -> str_less(Spelling(a), Spelling(b))
      [] OTHER -> a < b

\* a < b on tuples of the values of the columns by.
RECURSIVE key_less(_, _, _)
key_less(by, a, b) ==
    IF by = <<>> THEN FALSE
    ELSE IF a[1] = b[1] THEN key_less(Tail(by), Tail(a), Tail(b))
    ELSE value_less(by[1], a[1], b[1])

\* The group keys of a frame grouped by the columns by, in ascending order.
group_keys(df, by) ==
    LET keys == {[c \in DOMAIN by |-> df[i][by[c]]] : i \in DOMAIN df}
    IN  CHOOSE s \in [1..Cardinality(keys) -> keys] :
            \A i, j \in DOMAIN s : i < j => key_less(by, s[i], s[j])

never_empty(df) == FALSE

\* df.empty: a frame made from an empty list of rows has no rows (and no
\* columns).
empty(df) == df = <<>>

\* [column].count()
count(rows, column) == Len(rows)

\* [column].nunique()
nunique(rows, column) == Cardinality({rows[i][column] : i \in DOMAIN rows})

\* [column].sum()
RECURSIVE sum(_, _)
sum(rows, column) ==
    IF rows = <<>> THEN 0 ELSE rows[1][column] + sum(Tail(rows), column)

\* df.groupby(by)[column].how(): one entry per key, in ascending key order,
\* its index the key (the value itself when by is one column); KeyError when
\* the frame has no such column.
groupby(df, by, column, how) ==
    IF df = <<>> THEN Raised("KeyError", "", <<>>)
    ELSE LET keys == group_keys(df, by)
             group(g) == SelectSeq(df, LAMBDA row : [c \in DOMAIN by |-> row[by[c]]] = keys[g])
         IN  Returned([g \in DOMAIN keys |->
                 <<IF Len(by) = 1 THEN keys[g][1] ELSE keys[g],
                   IF how = "nunique" THEN nunique(group(g), column)
                   ELSE sum(group(g), column)>>])

\* Series.sort_values(ascending=False): the largest value first; entries with
\* equal values keep their order (the sort of a short array is an insertion
\* sort).
sort_values_descending(s) ==
    LET rank(i) == 1 + Cardinality({j \in DOMAIN s :
                        s[j][2] > s[i][2] \/ (s[j][2] = s[i][2] /\ j < i)})
    IN  [r \in DOMAIN s |-> s[CHOOSE i \in DOMAIN s : rank(i) = r]]

\* Series.head(n), n >= 0.
head(s, n) == SubSeq(s, 1, IF n < Len(s) THEN n ELSE Len(s))

top_clients_by_orders(os, top) ==
    LET df == analysis_orders_to_df(os)
        counts == groupby(df.value, <<"ClientNumber", "ClientFIO">>, "OrderNumber", "nunique")
    IN  IF ~df.ok THEN df
        ELSE IF empty(df.value) THEN Returned(<<>>)
        ELSE IF ~counts.ok THEN counts
        ELSE Returned(head(sort_values_descending(counts.value), top))

\* df['Revenue'] = df['ProductPrice']
with_Revenue(df) ==
    [i \in DOMAIN df |->
        [f \in DOMAIN df[i] \cup {"Revenue"} |->
            IF f = "Revenue" THEN df[i].ProductPrice ELSE df[i][f]]]

top_clients_by_revenue(os, top) ==
    LET df == analysis_orders_to_df(os)
        revenue == groupby(with_Revenue(df.value), <<"ClientNumber", "ClientFIO">>,
                           "Revenue", "sum")
    IN  IF ~df.ok THEN df
        ELSE IF empty(df.value) THEN Returned(<<>>)
        ELSE IF ~revenue.ok THEN revenue
        ELSE Returned(head(sort_values_descending(revenue.value), top))

top_products_per_line(os, top) ==
    LET df == analysis_orders_to_df(os)
    IN  IF ~df.ok THEN df
        ELSE IF empty(df.value) THEN Returned(<<>>)
        ELSE Returned(head(sort_values_descending(
                 [g \in DOMAIN df.value |->
                     <<df.value[g].ProductName, df.value[g].ProductPrice>>]), top))

top_products_by_revenue(os, top) ==
    LET df == analysis_orders_to_df(os)
        top_prod == groupby(df.value, <<"ProductName">>, "ProductPrice", "sum")
    IN  IF ~df.ok THEN df
        ELSE IF empty(df.value) THEN Returned(<<>>)
        ELSE IF ~top_prod.ok THEN top_prod
        ELSE Returned(head(sort_values_descending(top_prod.value), top))

\* The Series order_dynamics returns (it also draws it).
order_dynamics(os) ==
    LET df == analysis_orders_to_df(os)
    IN  IF ~df.ok THEN df
        ELSE IF empty(df.value) THEN Returned(<<>>)
        ELSE groupby(df.value, <<"OrderDate">>, "OrderNumber", "nunique")

(***************************************************************************)
(* The aggregation functions called on a list of orders.                   *)
(***************************************************************************)
\* top: int = 5
DefaultTop == 5

Tops == {1, DefaultTop}

\* The orders the lists are made of.  Of analysis.py: one with two line items;
\* one of the same client on the same day at another time, its product named
\* as another at a different price; one of another client on another day; one
\* with the number of the first, of a client with the number of the first;
\* one with no line item.  Of models.py: three with weighed products.
GivenOrders ==
    LET Noon == [day |-> 1, second |-> 43200, microsecond |-> 0]
        Later == [day |-> 4, second |-> 0, microsecond |-> 0]
        AIvanov == analysis_Client(1, <<"I", "v">>)
        ANamesake == analysis_Client(1, <<"P">>)
        APetrov == analysis_Client(2, <<"P">>)
        ANotebook == analysis_Product("Notebook", 300000)
        ASugar == analysis_Product("Sugar", 200)
        ASugarB == analysis_Product("Sugar", 3)
    IN  {analysis_Order(1, AIvanov, <<ANotebook, ASugar>>, Midnight),
         analysis_Order(2, AIvanov, <<ASugarB>>, Noon),
         analysis_Order(3, APetrov, <<ANotebook, ANotebook>>, Now),
         analysis_Order(1, ANamesake, <<ASugar>>, Later),
         analysis_Order(4, APetrov, <<>>, Later),
         Order_init(5, Ivanov, <<Laptop>>, <<<<Sugar, 10>>>>, Midnight, Now),
         Order_init(6, Petrov, <<>>, <<<<Sugar, 7>>, <<SugarB, 10>>>>, Noon, Now),
         Order_init(7, Petrov, <<Laptop, Laptop>>, <<>>, None, Now),
         Order_init(8, Ivanov, <<>>, <<>>, Midnight, Now)}

InitAnalysis == IdleAnalysis /\ IdleClient /\ IdleOrder /\ IdleDB /\ IdleSerial /\ IdleShop

\* orders.append(order)
append_order ==
    /\ Len(given) < MaxOrders
    /\ \E o \in GivenOrders : given' = Append(given, o)
    /\ result' = None
    /\ previous' = None
    /\ UNCHANGED <<shopVars, serialVars, clientVars, orderVars, dbVars>>

\* The aggregation call leaves its result; the one before it is kept.
Called(op, args, value) ==
    /\ previous' = result
    /\ result' = [op |-> op, args |-> args, value |-> value]
    /\ UNCHANGED <<shopVars, serialVars, clientVars, orderVars, dbVars>>

call_orders_to_df ==
    /\ given' = iterated(given)
    /\ Called("orders_to_df", <<>>, orders_to_df(given))

call_analysis_orders_to_df ==
    /\ given' = iterated(given)
    /\ Called("analysis.orders_to_df", <<>>, analysis_orders_to_df(given))

call_top_clients_by_orders ==
    /\ given' = iterated(given)
    /\ \E top \in Tops :
        Called("top_clients_by_orders", <<top>>, top_clients_by_orders(given, top))

call_top_clients_by_revenue ==
    /\ given' = iterated(given)
    /\ \E top \in Tops :
        Called("top_clients_by_revenue", <<top>>, top_clients_by_revenue(given, top))

call_top_products_by_revenue ==
    /\ given' = iterated(given)
    /\ \E top \in Tops :
        Called("top_products_by_revenue", <<top>>, top_products_by_revenue(given, top))

call_order_dynamics ==
    /\ given' = iterated(given)
    /\ Called("order_dynamics", <<>>, order_dynamics(given))

NextAnalysis ==
    \/ append_order
    \/ call_orders_to_df
    \/ call_analysis_orders_to_df
    \/ call_top_clients_by_orders
    \/ call_top_clients_by_revenue
    \/ call_top_products_by_revenue
    \/ call_order_dynamics

AnalysisSpec == InitAnalysis /\ [][NextAnalysis]_vars

(***************************************************************************)
(* Client and Product written with to_dict and read back with from_dict.   *)
(***************************************************************************)
\* What the forms hold: values with blanks around them and capital letters.
SerialForms ==
    {[fio |-> f, phone |-> ph, email |-> e] :
        f \in {Fio, <<" ", "P">>},
        ph \in {<<>>, ValidPhone, <<" ">> \o ValidPhone \o <<"\n">>, <<"8">>},
        e \in {<<>>, ValidEmail, <<" ", "U", "@", "u", ".", "R", "U", " ">>}}

ProductInputs ==
    {[name |-> n, price |-> pr, is_per_kg |-> k] :
        n \in {<<"S">>, <<" ", "S", " ">>, <<>>},
        pr \in {[int |-> 50], [float |-> 3], [str |-> <<"5", "0", " ">>], [str |-> <<"a">>]},
        k \in BOOLEAN}

InitSerial ==
    /\ form \in SerialForms
    /\ typed = 0
    /\ made = None
    /\ IdleSerial
    /\ IdleShop
    /\ IdleOrder
    /\ IdleDB
    /\ IdleAnalysis

client_to_dict ==
    /\ made # None
    /\ made.ok
    /\ client_data = None
    /\ client_data' = Client_to_dict(made.value)
    /\ UNCHANGED <<shopVars, client_args, client_restored, product, product_data, product_restored,
                   clientVars, orderVars, dbVars, analysisVars>>

client_from_dict ==
    /\ client_data # None
    /\ client_restored = None
    /\ client_restored' = Client_from_dict(client_data)
    /\ UNCHANGED <<shopVars, client_args, client_data, product, product_data, product_restored,
                   clientVars, orderVars, dbVars, analysisVars>>

\* The phone a caller hands to Client(...): a text or None.
PhoneArguments == {None, [str |-> <<>>], [str |-> <<"8">>], [str |-> ValidPhone]}

NewClientOfArguments ==
    /\ made = None
    /\ client_args = None
    /\ \E phone \in PhoneArguments :
        /\ client_args' = [number |-> 1, fio |-> [str |-> form.fio], phone |-> phone,
                           email |-> [str |-> form.email]]
        /\ made' = Client_call(1, [str |-> form.fio], phone, [str |-> form.email])
    /\ UNCHANGED <<shopVars, client_data, client_restored, product, product_data, product_restored,
                   form, typed, orderVars, dbVars, analysisVars>>

NewProduct ==
    /\ product = None
    /\ \E in \in ProductInputs : product' = Product_init(1, in.name, in.price, in.is_per_kg)
    /\ UNCHANGED <<shopVars, client_args, client_data, client_restored, product_data, product_restored,
                   clientVars, orderVars, dbVars, analysisVars>>

product_to_dict ==
    /\ product # None
    /\ product.ok
    /\ product_data = None
    /\ product_data' = Product_to_dict(product.value)
    /\ UNCHANGED <<shopVars, client_args, client_data, client_restored, product, product_restored,
                   clientVars, orderVars, dbVars, analysisVars>>

\* A catalog entry written before is_per_kg existed: the mapping without it.
drop_is_per_kg ==
    /\ product_data # None
    /\ product_restored = None
    /\ "is_per_kg" \in DOMAIN product_data
    /\ product_data' = [k \in DOMAIN product_data \ {"is_per_kg"} |-> product_data[k]]
    /\ UNCHANGED <<shopVars, client_args, client_data, client_restored, product, product_restored,
                   clientVars, orderVars, dbVars, analysisVars>>

product_from_dict ==
    /\ product_data # None
    /\ product_restored = None
    /\ product_restored' = Product_from_dict(2, product_data)
    /\ UNCHANGED <<shopVars, client_args, client_data, client_restored, product, product_data,
                   clientVars, orderVars, dbVars, analysisVars>>

NextSerial ==
    \/ NewClient
    \/ NewClientOfArguments
    \/ client_to_dict
    \/ client_from_dict
    \/ NewProduct
    \/ product_to_dict
    \/ drop_is_per_kg
    \/ product_from_dict

SerialSpec == InitSerial /\ [][NextSerial]_vars

(***************************************************************************)
(* The order form of shop_gui_classic.py.  The module keeps clients,       *)
(* orders, next_client_id and next_order_id as globals; form holds the     *)
(* entries of the client tab.  A message box is [call, message, part].     *)
(***************************************************************************)
\* s.split(sep) for a separator of one character.
RECURSIVE split(_, _)
split(s, sep) ==
    IF \A i \in DOMAIN s : s[i] # sep THEN <<s>>
    ELSE LET at == CHOOSE i \in DOMAIN s : s[i] = sep /\ \A j \in 1..(i - 1) : s[j] # sep
         IN  <<SubSeq(s, 1, at - 1)>> \o split(SubSeq(s, at + 1, Len(s)), sep)

\* sep.join(parts)
RECURSIVE join(_, _)
join(sep, parts) ==
    IF parts = <<>> THEN <<>>
    ELSE IF Len(parts) = 1 THEN parts[1]
    ELSE parts[1] \o <<sep>> \o join(sep, Tail(parts))

\* int(text) of a str: blanks around the digits are ignored.
int(text) ==
    IF strip(text) # <<>> /\ \A i \in DOMAIN strip(text) : strip(text)[i] \in Digits \ {"ARABIC_INDIC_3"}
    THEN Returned(int_of_digits(strip(text)))
    ELSE Raised("ValueError", "client_id", text)

\* The price of a product given without one, 1000.0.
DefaultPrice == 4000

\* The body of the try of lines 153-160 for one stripped, non-empty part.
parse_part(part) ==
    LET name_price == split(part, ",")
    IN  IF Len(name_price) = 1
        THEN Returned([name |-> strip(part), price |-> DefaultPrice])
        ELSE IF ~float([str |-> name_price[Len(name_price)]]).ok
             THEN Raised("ValueError", "format", part)
             ELSE Returned([name |-> strip(join(",", SubSeq(name_price, 1, Len(name_price) - 1))),
                            price |-> float([str |-> name_price[Len(name_price)]]).value])

\* The loop of lines 149-163: the products of the parts, or the first failure.
RECURSIVE parse_products(_)
parse_products(parts) ==
    IF parts = <<>> THEN Returned(<<>>)
    ELSE IF strip(parts[1]) = <<>> THEN parse_products(Tail(parts))
    ELSE IF ~parse_part(strip(parts[1])).ok THEN parse_part(strip(parts[1]))
    ELSE IF ~parse_products(Tail(parts)).ok THEN parse_products(Tail(parts))
    ELSE Returned(<<parse_part(strip(parts[1])).value>> \o parse_products(Tail(parts)).value)

showwarning(message) == [call |-> "showwarning", message |-> message, part |-> <<>>]

showerror(message, part) == [call |-> "showerror", message |-> message, part |-> part]

\* What one key press adds to the products field.
ProductKeys == {<<"L", ",", " ", "5">>, <<"L">>, <<",", " ">>, <<";">>, <<"5">>, <<"x">>}

ClientIdTexts == {<<" ", "1">>, <<"2">>, <<"x">>}

EmptyForm == [fio |-> <<>>, phone |-> <<>>, email |-> <<>>]

InitClassic ==
    /\ form \in {[EmptyForm EXCEPT !.fio = Fio], [EmptyForm EXCEPT !.fio = <<" ">>]}
    /\ typed = 0
    /\ made = None
    /\ IdleDB
    /\ IdleShop
    /\ IdleOrder
    /\ IdleAnalysis
    /\ IdleSerial

classic_add_client ==
    /\ IF strip(form.fio) = <<>>
       THEN /\ messagebox' = showwarning("fio_required")
            /\ UNCHANGED <<clients, next_client_id, form>>
       ELSE /\ clients' = Append(clients, [number |-> next_client_id, fio |-> strip(form.fio),
                                           email |-> strip(form.email),
                                           phone |-> strip(form.phone)])
            /\ next_client_id' = next_client_id + 1
            /\ form' = EmptyForm
            /\ messagebox' = None
    /\ last_call' = "add_client"
    /\ UNCHANGED <<typed, made, orders, next_order_id, clients_file, orders_file, printed, got,
                   entry_client_id, entry_products, catalog_file,
                   orderVars, analysisVars, serialVars>>

TypeClientId ==
    /\ entry_client_id = <<>>
    /\ entry_client_id' \in ClientIdTexts
    /\ UNCHANGED <<entry_products, messagebox, catalog_file,
                   clientVars, dbVars, orderVars, analysisVars, serialVars>>

TypeProducts ==
    /\ typed < MaxFormKeys
    /\ \E k \in ProductKeys : entry_products' = entry_products \o k
    /\ typed' = typed + 1
    /\ UNCHANGED <<entry_client_id, messagebox, catalog_file, form, made,
                   dbVars, orderVars, analysisVars, serialVars>>

classic_add_order ==
    /\ LET client_num == int(entry_client_id)
           found == IF client_num.ok
                    THEN SelectSeq(clients, LAMBDA c : c.number = client_num.value)
                    ELSE <<>>
           products_text == strip(entry_products)
           products == parse_products(split(products_text, ";"))
       IN  IF ~client_num.ok
           THEN /\ messagebox' = showerror("client_id_is_a_number", <<>>)
                /\ UNCHANGED <<orders, next_order_id, entry_client_id, entry_products>>
           ELSE IF found = <<>>
           THEN /\ messagebox' = showerror("client_not_found", <<>>)
                /\ UNCHANGED <<orders, next_order_id, entry_client_id, entry_products>>
           ELSE IF products_text = <<>>
           THEN /\ messagebox' = showerror("products_required", <<>>)
                /\ UNCHANGED <<orders, next_order_id, entry_client_id, entry_products>>
           ELSE IF ~products.ok
           THEN /\ messagebox' = showerror("wrong_product_format", products.echo)
                /\ UNCHANGED <<orders, next_order_id, entry_client_id, entry_products>>
           ELSE /\ orders' = Append(orders, analysis_Order(next_order_id, found[1],
                                                           products.value, Now))
                /\ next_order_id' = next_order_id + 1
                /\ entry_client_id' = <<>>
                /\ entry_products' = <<>>
                /\ messagebox' = None
    /\ last_call' = "add_order"
    /\ UNCHANGED <<clients, next_client_id, clients_file, orders_file, printed, got,
                   catalog_file, clientVars, orderVars, analysisVars, serialVars>>

NextClassic == classic_add_client \/ TypeClientId \/ TypeProducts \/ classic_add_order

ClassicSpec == InitClassic /\ [][NextClassic]_vars

(***************************************************************************)
(* The repository of shop_gui_spices.py and the handlers that fill it.     *)
(* An object is a record of its attributes; a dict read from JSON is       *)
(* [dict |-> mapping], an object without the attributes of the mapping.    *)
(* price_per_kg and kg are counts of quarters.                             *)
(***************************************************************************)
spice_Product(name, price_per_kg) == [name |-> name, price_per_kg |-> price_per_kg]

spice_Client(number, fio, phone, email) ==
    [number |-> number, fio |-> fio, phone |-> phone, email |-> email]

spice_Order(number, client, products_kg, date, now) ==
    [number |-> number, client |-> client, products_kg |-> products_kg,
     date |-> IF date = None THEN now ELSE date]

spice_Order_to_dict(self) ==
    [number |-> self.number,
     client_number |-> self.client.number,
     products_kg |-> DictOf([i \in 1..Len(self.products_kg) |->
                                <<self.products_kg[i][1].name, self.products_kg[i][2]>>]),
     date |-> isoformat(self.date)]

\* next(p for p in products_catalog if p.name == name)
spice_next_named(products_catalog, name) ==
    IF \A k \in DOMAIN products_catalog : products_catalog[k].name # name
    THEN Raised("StopIteration", "", <<>>)
    ELSE Returned(products_catalog[CHOOSE k \in DOMAIN products_catalog :
                      /\ products_catalog[k].name = name
                      /\ \A m \in 1..(k - 1) : products_catalog[m].name # name])

spice_Order_from_dict(d, cmap, products_catalog) ==
    LET found == [i \in DOMAIN d.products_kg |->
                     spice_next_named(products_catalog, d.products_kg[i][1])]
    IN  IF ~DictIndex(cmap, d.client_number).ok THEN DictIndex(cmap, d.client_number)
        ELSE IF SomeRaised(found) THEN Raised("StopIteration", "", <<>>)
        ELSE IF ~fromisoformat(d.date).ok THEN fromisoformat(d.date)
        ELSE Returned(spice_Order(d.number, DictIndex(cmap, d.client_number).value,
                                  DictOf([i \in DOMAIN found |->
                                             <<found[i].value, d.products_kg[i][2]>>]),
                                  fromisoformat(d.date).value, Now))

\* The catalog written when there is no catalog.json.
DefaultCatalog ==
    <<spice_Product("Sugar", 200), spice_Product("Salt", 80), spice_Product("Pepper", 1200),
      spice_Product("Turmeric", 1800), spice_Product("Paprika", 1120),
      spice_Product("Cinnamon", 2400)>>

spice_save_catalog(products) == [exists |-> TRUE, kind |-> "list", content |-> products]

\* _load_catalog: nothing around json.load catches what it raises.
spice_load_catalog(file) ==
    IF ~file.exists THEN Returned(DefaultCatalog)
    ELSE IF ~json_load(file).ok THEN json_load(file)
    ELSE Returned(file.content)

\* _load_json(file, []): what json.load returns, dicts as they are.
spice_load_json(file) ==
    IF ~file.exists \/ ~json_load(file).ok THEN <<>>
    ELSE [i \in DOMAIN file.content |-> [dict |-> file.content[i]]]

\* [x.number for x in xs], or the first error of reading the attribute.
spice_numbers(xs) ==
    LET numbers == [i \in DOMAIN xs |-> getattr(xs[i], "number")]
    IN  IF SomeRaised(numbers)
        THEN numbers[CHOOSE i \in DOMAIN numbers : ~numbers[i].ok /\ \A j \in 1..(i - 1) : numbers[j].ok]
        ELSE Returned(Values(numbers))

\* _load_orders
spice_load_orders(file, cs, products_catalog) ==
    IF cs = <<>> THEN Returned(<<>>)
    ELSE IF ~spice_numbers(cs).ok THEN spice_numbers(cs)
    ELSE LET cmap == DictOf([i \in DOMAIN cs |-> <<cs[i].number, cs[i]>>])
             loaded == [i \in DOMAIN spice_load_json(file) |->
                           spice_Order_from_dict(spice_load_json(file)[i].dict, cmap,
                                                 products_catalog)]
         IN  IF SomeRaised(loaded)
             THEN loaded[CHOOSE i \in DOMAIN loaded : ~loaded[i].ok /\ \A j \in 1..(i - 1) : loaded[j].ok]
             ELSE Returned(Values(loaded))

\* max((x.number for x in xs), default=0) + 1
spice_next_id(xs) ==
    IF ~spice_numbers(xs).ok THEN spice_numbers(xs)
    ELSE Returned(FirstFreeId(xs))

\* FileDatabase.save: both documents are written.
spice_save_clients(cs) ==
    [exists |-> TRUE, kind |-> "list",
     content |-> [i \in DOMAIN cs |-> spice_Client(cs[i].number, cs[i].fio, cs[i].phone,
                                                   cs[i].email)]]

spice_save_orders(os) ==
    [exists |-> TRUE, kind |-> "list",
     content |-> [i \in DOMAIN os |-> spice_Order_to_dict(os[i])]]

\* The application is not running: FileDatabase() raised when it started.
Crashed ==
    last_call \in {"FileDatabase raised " \o t :
                      t \in {"AttributeError", "JSONDecodeError", "UnicodeDecodeError",
                             "StopIteration", "KeyError", "ValueError"}}

\* The application started in a folder that holds no document.
InitSpice ==
    /\ catalog = DefaultCatalog
    /\ catalog_file = spice_save_catalog(DefaultCatalog)
    /\ clients = <<>>
    /\ orders = <<>>
    /\ next_client_id = 1
    /\ next_order_id = 1
    /\ clients_file = NoFile
    /\ orders_file = NoFile
    /\ last_call = "FileDatabase"
    /\ printed = {}
    /\ got = None
    /\ clients_map = <<>>
    /\ order = None
    /\ data = None
    /\ restored = None
    /\ entry_client_id = <<>>
    /\ entry_products = <<>>
    /\ messagebox = None
    /\ IdleClient
    /\ IdleAnalysis
    /\ IdleSerial

\* SpiceShopApp.add_client on what the two entries hold.
spice_add_client ==
    /\ ~Crashed
    /\ Len(clients) + Len(orders) < MaxEntities
    /\ \E entry_fio \in {Fio, <<" ">>}, entry_phone \in {<<>>, <<"8">>} :
        IF strip(entry_fio) = <<>>
        THEN /\ messagebox' = showwarning("fio_required")
             /\ UNCHANGED <<clients, next_client_id, clients_file, orders_file>>
        ELSE /\ clients' = Append(clients, spice_Client(next_client_id, strip(entry_fio),
                                                        strip(entry_phone), <<>>))
             /\ next_client_id' = next_client_id + 1
             /\ clients_file' = spice_save_clients(clients')
             /\ orders_file' = spice_save_orders(orders)
             /\ messagebox' = None
    /\ last_call' = "add_client"
    /\ UNCHANGED <<orders, next_order_id, catalog, catalog_file, printed, got,
                   clients_map, order, data, restored, entry_client_id, entry_products,
                   clientVars, analysisVars, serialVars>>

\* open_order_window and its save_order: the client field, the products
\* ticked, and the weight in the entry of the last product of the catalog,
\* which save_order reads for every product.
spice_save_order ==
    /\ ~Crashed
    /\ Len(clients) + Len(orders) < MaxEntities
    /\ \E client_id \in {<<"1">>, <<"x">>}, ticked \in SUBSET (DOMAIN catalog \cap {1, 2}), qty \in {<<"2">>, <<"0">>, <<"x">>} :
        LET known == /\ int(client_id).ok
                     /\ client_id = strip(client_id)
                     /\ \E i \in DOMAIN clients : clients[i].number = int(client_id).value
            client == clients[CHOOSE i \in DOMAIN clients :
                                 clients[i].number = int(client_id).value]
            kg == float([str |-> qty])
            products_kg == IF kg.ok /\ kg.value > 0
                           THEN SelectSeq([k \in DOMAIN catalog |-> <<catalog[k], kg.value>>],
                                          LAMBDA item : \E k \in ticked : catalog[k] = item[1])
                           ELSE <<>>
        IN  IF ~known
            THEN /\ messagebox' = showerror("client_id", <<>>)
                 /\ UNCHANGED <<orders, next_order_id, clients_file, orders_file>>
            ELSE IF products_kg = <<>>
            THEN /\ messagebox' = showwarning("products_required")
                 /\ UNCHANGED <<orders, next_order_id, clients_file, orders_file>>
            ELSE /\ orders' = Append(orders, spice_Order(next_order_id, client, products_kg,
                                                         None, Now))
                 /\ next_order_id' = next_order_id + 1
                 /\ clients_file' = spice_save_clients(clients)
                 /\ orders_file' = spice_save_orders(orders')
                 /\ messagebox' = [call |-> "showinfo", message |-> "order_created",
                                   part |-> <<>>]
    /\ last_call' = "save_order"
    /\ UNCHANGED <<clients, next_client_id, catalog, catalog_file, printed, got,
                   clients_map, order, data, restored, entry_client_id, entry_products,
                   clientVars, analysisVars, serialVars>>

\* catalog.json replaced by text that is no JSON, or by a catalog without
\* its first product.
TamperCatalog ==
    /\ catalog_file.kind = "list"
    /\ \/ catalog_file' \in Damaged
       \/ catalog_file.content # <<>> /\ catalog_file' = [catalog_file EXCEPT !.content = Tail(@)]
    /\ UNCHANGED <<clients, orders, next_client_id, next_order_id, clients_file, orders_file,
                   last_call, printed, got, catalog, clients_map, order, data, restored,
                   entry_client_id, entry_products, messagebox,
                   clientVars, analysisVars, serialVars>>

\* The application started again: FileDatabase() on the folder.
spice_FileDatabase ==
    /\ LET products == spice_load_catalog(catalog_file)
           cs == spice_load_json(clients_file)
           os == spice_load_orders(orders_file, cs, products.value)
           raised == IF ~products.ok THEN products
                     ELSE IF ~os.ok THEN os
                     ELSE IF ~spice_next_id(cs).ok THEN spice_next_id(cs)
                     ELSE spice_next_id(os.value)
       IN  IF ~raised.ok
           THEN /\ last_call' = "FileDatabase raised " \o raised.type
                /\ clients' = <<>>
                /\ orders' = <<>>
                /\ next_client_id' = 1
                /\ next_order_id' = 1
                /\ catalog' = <<>>
                /\ catalog_file' = IF ~catalog_file.exists
                                   THEN spice_save_catalog(DefaultCatalog) ELSE catalog_file
           ELSE /\ last_call' = "FileDatabase"
                /\ catalog' = products.value
                /\ catalog_file' = IF ~catalog_file.exists
                                   THEN spice_save_catalog(DefaultCatalog) ELSE catalog_file
                /\ clients' = cs
                /\ orders' = os.value
                /\ next_client_id' = spice_next_id(cs).value
                /\ next_order_id' = spice_next_id(os.value).value
    /\ messagebox' = None
    /\ UNCHANGED <<clients_file, orders_file, printed, got, clients_map, order, data, restored,
                   entry_client_id, entry_products, clientVars, analysisVars, serialVars>>

NextSpice == spice_add_client \/ spice_save_order \/ TamperCatalog \/ spice_FileDatabase

SpiceSpec == InitSpice /\ [][NextSpice]_vars

(***************************************************************************)
(* Properties of the repository (Spec).                                    *)
(***************************************************************************)
Numbers(xs) == {xs[i].number : i \in DOMAIN xs}

\* C1: get_next_order_id() never returns the number of an order written to
\* orders.json, restarts of the repository included.
OrderIdsNeverReused == next_order_id \notin Numbers(orders_file.content)

\* C2: a FileDatabase constructed on a directory holds the orders persisted
\* there: the same numbers, client numbers, line items and dates, in order.
ReloadReconstructsOrders ==
    last_call = "restart" =>
        /\ Len(orders) = Len(orders_file.content)
        /\ \A i \in DOMAIN orders : Order_to_dict(orders[i]) = orders_file.content[i]

\* C3: each counter is above the number of every entity of its collection, and
\* no add_client or add_order call lowers a counter.
CountersAboveNumbers ==
    /\ [](/\ \A n \in Numbers(clients) : next_client_id > n
          /\ \A n \in Numbers(orders) : next_order_id > n)
    /\ [][last_call' \in {"add_client", "add_order"} =>
             /\ next_client_id' >= next_client_id
             /\ next_order_id' >= next_order_id]_vars

GapThenLowNumber ==
    /\ Len(clients) = 2
    /\ clients[1].number > clients[2].number + 1
    /\ Len(orders) = 1
    /\ orders[1].number > 1
    /\ last_call = "add_order"

\* C4: when add_client (add_order) returns, the clients (orders) document is the
\* to_dict of every element of the in-memory collection, the new one included,
\* in order, and the other document is as it was.
WriteThrough ==
    [][/\ last_call' = "add_client" =>
            /\ Len(clients') = Len(clients) + 1
            /\ clients_file'.exists
            /\ Len(clients_file'.content) = Len(clients')
            /\ \A i \in DOMAIN clients' : clients_file'.content[i] = Client_to_dict(clients'[i])
            /\ orders_file' = orders_file
       /\ last_call' = "add_order" =>
            /\ Len(orders') = Len(orders) + 1
            /\ orders_file'.exists
            /\ Len(orders_file'.content) = Len(orders')
            /\ \A i \in DOMAIN orders' : orders_file'.content[i] = Order_to_dict(orders'[i])
            /\ clients_file' = clients_file]_vars

SecondClientWritten ==
    /\ last_call = "add_client"
    /\ Len(clients) = 2
    /\ Len(clients_file.content) = 2
    /\ orders_file.exists

FailsReconstruction(file, results) ==
    \/ ~file.exists
    \/ file.kind # "list"
    \/ SomeRaised(results)

\* C11: after FileDatabase(data_dir) is constructed, a collection whose document
\* is missing, unreadable, no JSON or holds a record that fails reconstruction
\* is empty, the failure of a document that exists has been reported, and every
\* client of the repository has a phone and an email that pass validation.
LoadNeverAborts ==
    last_call = "restart" =>
        /\ FailsReconstruction(clients_file,
                [i \in DOMAIN clients_file.content |->
                    Client_from_dict(clients_file.content[i])]) =>
                /\ clients = <<>>
                /\ clients_file.exists => "clients" \in printed
        /\ FailsReconstruction(orders_file,
                [i \in DOMAIN orders_file.content |->
                    Order_from_dict_call(<<orders_file.content[i], ClientsMap(clients)>>)]) =>
                /\ orders = <<>>
                /\ orders_file.exists => "orders" \in printed
        /\ \A i \in DOMAIN clients :
                Client_init(clients[i].number, clients[i].fio,
                            clients[i].phone, clients[i].email).ok

\* C27: when the write of the document fails in add_client (add_order), the
\* call raises, the collection in memory is the old one with the entity
\* appended, the counter is max(old counter, entity.number + 1) and nothing
\* else in memory changes.
WriteFailureKeepsMemory ==
    [][/\ add_client_write_fails =>
            /\ last_call' = "add_client raised"
            /\ Len(clients') = Len(clients) + 1
            /\ SubSeq(clients', 1, Len(clients)) = clients
            /\ next_client_id' = Max2(next_client_id, clients'[Len(clients')].number + 1)
            /\ orders' = orders
            /\ next_order_id' = next_order_id
       /\ add_order_write_fails =>
            /\ last_call' = "add_order raised"
            /\ Len(orders') = Len(orders) + 1
            /\ SubSeq(orders', 1, Len(orders)) = orders
            /\ next_order_id' = Max2(next_order_id, orders'[Len(orders')].number + 1)
            /\ clients' = clients
            /\ next_client_id' = next_client_id]_vars

MemoryAheadOfDisk ==
    /\ last_call = "add_client raised"
    /\ Len(clients) = 2
    /\ clients_file = save_clients(<<clients[1]>>)
    /\ next_client_id > clients[2].number + 1

\* A document that exists and holds something.
NonEmptyDocument(file) == file.exists /\ (file.kind # "list" \/ file.content # <<>>)

\* C29: a repository that starts with no client (no order) in memory although
\* clients.json (orders.json) holds something - the document failed to load,
\* or orders.json was passed over for want of clients - starts its counter at
\* 1, and its first add_client (add_order) leaves in the document the new
\* entity alone.
OverwriteAfterDegradedLoad ==
    /\ [](last_call = "restart" =>
            /\ (\/ clients_file.kind # "list"
                \/ \E i \in DOMAIN clients_file.content :
                       ~Client_from_dict(clients_file.content[i]).ok) => clients = <<>>
            /\ clients = <<>> => (orders = <<>> /\ next_client_id = 1)
            /\ orders = <<>> => next_order_id = 1)
    /\ [][/\ (add_client /\ clients = <<>> /\ NonEmptyDocument(clients_file)) =>
                /\ Len(clients') = 1
                /\ clients_file' = save_clients(clients')
                /\ Len(clients_file'.content) = 1
          /\ (add_order /\ orders = <<>> /\ NonEmptyDocument(orders_file)) =>
                /\ Len(orders') = 1
                /\ orders_file' = save_orders(orders')
                /\ Len(orders_file'.content) = 1]_vars

FirstAddAfterDegradedLoad ==
    /\ last_call = "add_client"
    /\ Len(clients) = 1
    /\ clients[1].number = 3
    /\ clients_file = save_clients(clients)
    /\ orders = <<>>
    /\ orders_file.kind = "list"
    /\ Len(orders_file.content) = 1
    /\ orders_file.content[1].client_number = 1

CallerCalls == {"caller_append", "caller_remove", "caller_reverse"}

\* C12: a caller's append, remove or reverse on the list get_clients or
\* get_orders returned leaves the repository's clients, orders and counters as
\* they were, so that the next get_clients and get_orders return what they
\* would have returned before it.
DefensiveCopies ==
    [][last_call' \in CallerCalls =>
          /\ clients' = clients
          /\ orders' = orders
          /\ next_client_id' = next_client_id
          /\ next_order_id' = next_order_id
          /\ list_copy("clients", clients').items = list_copy("clients", clients).items
          /\ list_copy("orders", orders').items = list_copy("orders", orders).items]_vars

ReversedCopyOfTwoClients ==
    /\ last_call = "caller_reverse"
    /\ got.of = "clients"
    /\ Len(clients) = 2
    /\ clients[1] # clients[2]
    /\ got.items = Reverse(clients)
    /\ got.items # clients

(***************************************************************************)
(* Properties of the aggregation functions (AnalysisSpec).                 *)
(***************************************************************************)
IsAnalysisOrder(o) == "products" \in DOMAIN o

\* The line items of an order, each with its product name and its line
\* revenue in eighths: the price of a unit item, price times kg of a weighed
\* one.
LineItems(o) ==
    IF IsAnalysisOrder(o)
    THEN [i \in DOMAIN o.products |->
             [name |-> o.products[i].name, revenue |-> 2 * o.products[i].price]]
    ELSE [i \in DOMAIN o.products_list |->
             [name |-> o.products_list[i].name, revenue |-> 2 * o.products_list[i].price]]
         \o [i \in DOMAIN o.products_kg |->
                [name |-> o.products_kg[i][1].name,
                 revenue |-> o.products_kg[i][1].price * o.products_kg[i][2]]]

GivenWithItems == {i \in DOMAIN given : LineItems(given[i]) # <<>>}

ClientKeyOf(o) == <<o.client.number, o.client.fio>>

ClientGroups == {ClientKeyOf(given[i]) : i \in GivenWithItems}

OrderNumbersOf(key) ==
    {given[i].number : i \in {j \in GivenWithItems : ClientKeyOf(given[j]) = key}}

Min2(a, b) == IF a <= b THEN a ELSE b

\* A series in descending order of value, no index twice.
Descending(s) ==
    \A i, j \in DOMAIN s : i < j => s[i][2] >= s[j][2] /\ s[i][1] # s[j][1]

Called_on_analysis_orders(op) ==
    /\ result # None
    /\ result.op = op
    /\ \A i \in DOMAIN given : IsAnalysisOrder(given[i])

Called_on_models_orders(op) ==
    /\ result # None
    /\ result.op = op
    /\ \A i \in DOMAIN given : ~IsAnalysisOrder(given[i])

RECURSIVE LineItemsBefore(_)
LineItemsBefore(k) ==
    IF k = 1 THEN 0 ELSE LineItemsBefore(k - 1) + Len(LineItems(given[k - 1]))

RECURSIVE TotalOf(_)
TotalOf(os) == IF os = <<>> THEN 0 ELSE Order_total(os[1]) + TotalOf(Tail(os))

\* C14: orders_to_df of models.py returns, for the orders in the order given,
\* one row per products_list element (quantity 1, revenue the price, not per
\* kg) and then one per products_kg entry (quantity kg, revenue price times
\* kg, per kg), each with the order's number, the client's number and name,
\* the product's name and the day of the order's date; there are as many rows
\* as line items and the revenues add up to the unrounded totals of the orders.
FlatteningRule ==
    Called_on_models_orders("orders_to_df") =>
        /\ result.value.ok
        /\ LET df == result.value.value
           IN  /\ Len(df) = LineItemsBefore(Len(given) + 1)
               /\ sum(df, "Revenue") = TotalOf(given)
               /\ \A k \in DOMAIN given :
                    LET o == given[k]
                        at == LineItemsBefore(k)
                        units == Len(o.products_list)
                    IN  /\ \A i \in DOMAIN o.products_list :
                              /\ df[at + i].ProductName = o.products_list[i].name
                              /\ df[at + i].Quantity = 2
                              /\ df[at + i].Revenue = 2 * o.products_list[i].price
                              /\ df[at + i].IsPerKg = FALSE
                        /\ \A i \in DOMAIN o.products_kg :
                              /\ df[at + units + i].ProductName = o.products_kg[i][1].name
                              /\ df[at + units + i].Quantity = o.products_kg[i][2]
                              /\ df[at + units + i].Revenue =
                                     o.products_kg[i][1].price * o.products_kg[i][2]
                              /\ df[at + units + i].IsPerKg = TRUE
                        /\ \A i \in 1..Len(LineItems(o)) :
                              /\ df[at + i].OrderNumber = o.number
                              /\ df[at + i].ClientNumber = o.client.number
                              /\ df[at + i].ClientFIO = o.client.fio
                              /\ df[at + i].OrderDate = o.date.day

UnitAndWeighedRows ==
    /\ Called_on_models_orders("orders_to_df")
    /\ Len(given) = 2
    /\ Len(given[1].products_kg) = 2
    /\ given[2].products_list # <<>>
    /\ given[2].products_kg # <<>>
    /\ Len(result.value.value) = 4
    /\ result.value.value[3].IsPerKg = FALSE
    /\ result.value.value[4].IsPerKg = TRUE

RECURSIVE RevenueOfItems(_)
RevenueOfItems(items) ==
    IF items = <<>> THEN 0 ELSE items[1].revenue + RevenueOfItems(Tail(items))

\* The line items of the first k orders given, each with its client.
RECURSIVE GivenItems(_)
GivenItems(k) ==
    IF k = 0 THEN <<>>
    ELSE GivenItems(k - 1)
         \o [i \in DOMAIN LineItems(given[k]) |->
                [client |-> ClientKeyOf(given[k]),
                 name |-> LineItems(given[k])[i].name,
                 revenue |-> LineItems(given[k])[i].revenue]]

\* The line revenue, in eighths, of all line items of a client's orders.
ClientRevenue(key) ==
    RevenueOfItems(SelectSeq(GivenItems(Len(given)), LAMBDA item : item.client = key))

\* C15: top_clients_by_revenue, on orders with unit-priced and weighed line
\* items, returns for the top clients (number, name) the sum of the line
\* revenue of the client's line items (price of a unit item, price times kg of
\* a weighed one), in descending order, min(top, number of clients) entries,
\* none left out having a larger sum than one returned.
TopClientsSumLineRevenue ==
    (result # None /\ result.op = "top_clients_by_revenue") =>
        /\ result.value.ok
        /\ LET s == result.value.value
           IN  /\ Len(s) = Min2(result.args[1], Cardinality(ClientGroups))
               /\ Descending(s)
               /\ \A i \in DOMAIN s :
                    /\ s[i][1] \in ClientGroups
                    /\ 2 * s[i][2] = ClientRevenue(s[i][1])
                    /\ \A key \in ClientGroups \ {s[j][1] : j \in DOMAIN s} :
                           ClientRevenue(key) <= 2 * s[i][2]

ProductNames == {GivenItems(Len(given))[i].name : i \in DOMAIN GivenItems(Len(given))}

\* The line revenue, in eighths, of all line items with a product name.
NameRevenue(name) ==
    RevenueOfItems(SelectSeq(GivenItems(Len(given)), LAMBDA item : item.name = name))

\* C16: top_products_by_revenue on orders of analysis.py returns, for the top
\* product names, the sum of the line revenue of all line items with that
\* name, whatever their product object, price, order and client, in
\* descending order, min(top, number of names) entries, none left out having
\* a larger sum than one returned.
TopProductsGroupByName ==
    Called_on_analysis_orders("top_products_by_revenue") =>
        /\ result.value.ok
        /\ LET s == result.value.value
           IN  /\ Len(s) = Min2(result.args[1], Cardinality(ProductNames))
               /\ Descending(s)
               /\ \A i \in DOMAIN s :
                    /\ s[i][1] \in ProductNames
                    /\ 2 * s[i][2] = NameRevenue(s[i][1])
                    /\ \A name \in ProductNames \ {s[j][1] : j \in DOMAIN s} :
                           NameRevenue(name) <= 2 * s[i][2]

SameNameTwoPrices ==
    /\ Called_on_analysis_orders("top_products_by_revenue")
    /\ Len(given) = 2
    /\ given[1].client = given[2].client
    /\ given[2].products # <<>>
    /\ Len(result.value.value) = 2
    /\ \E i \in DOMAIN given[1].products :
          /\ given[1].products[i].name = given[2].products[1].name
          /\ given[1].products[i].price # given[2].products[1].price
          /\ result.value.value[2] =
                 <<given[2].products[1].name,
                   given[1].products[i].price + given[2].products[1].price>>

OrderDays == {given[i].date.day : i \in GivenWithItems}

OrderNumbersOn(day) ==
    {given[i].number : i \in {j \in GivenWithItems : given[j].date.day = day}}

\* C17: order_dynamics on orders of analysis.py returns one entry for each
\* calendar day on which an order with a line item is dated, and for no other
\* day, in ascending order of the days, its value the number of distinct order
\* numbers dated that day at any time of the day.
DailyOrderCounts ==
    Called_on_analysis_orders("order_dynamics") =>
        /\ result.value.ok
        /\ LET s == result.value.value
           IN  /\ {s[i][1] : i \in DOMAIN s} = OrderDays
               /\ \A i, j \in DOMAIN s : i < j => s[i][1] < s[j][1]
               /\ \A i \in DOMAIN s : s[i][2] = Cardinality(OrderNumbersOn(s[i][1]))

SameDayTwoTimes ==
    /\ Called_on_analysis_orders("order_dynamics")
    /\ Len(given) = 2
    /\ given[1].date.day = given[2].date.day
    /\ given[1].date.second # given[2].date.second
    /\ result.value.value = <<<<given[1].date.day, 2>>>>

Rankings ==
    {"top_clients_by_orders", "top_clients_by_revenue", "top_products_by_revenue",
     "order_dynamics"}

\* C18: called on an empty list of orders, each of top_clients_by_orders,
\* top_clients_by_revenue, top_products_by_revenue and order_dynamics returns
\* an empty series and raises nothing.
EmptyInEmptyOut ==
    (result # None /\ result.op \in Rankings /\ given = <<>>) =>
        /\ result.value.ok
        /\ result.value.value = <<>>

TwoRankingsOnNoOrders ==
    /\ given = <<>>
    /\ result # None
    /\ previous # None
    /\ result.op = "order_dynamics"
    /\ previous.op = "top_clients_by_revenue"
    /\ result.value.ok
    /\ previous.value.ok

\* The given orders that have a line item, in the order given.
WithLineItems == SelectSeq(given, LAMBDA o : LineItems(o) # <<>>)

ClientProductRoundTrip ==
    /\ client_restored # None =>
            /\ client_restored.ok
            /\ client_restored.value.number = made.value.number
            /\ client_restored.value.fio = made.value.fio
            /\ client_restored.value.phone = made.value.phone
            /\ client_restored.value.email = made.value.email
    /\ (product_restored # None /\ product_data = Product_to_dict(product.value)) =>
            /\ product_restored.ok
            /\ product_restored.value.name = product.value.name
            /\ product_restored.value.price = product.value.price
            /\ product_restored.value.is_per_kg = product.value.is_per_kg
    /\ (product_restored # None /\ "is_per_kg" \notin DOMAIN product_data) =>
            /\ product_restored.ok
            /\ product_restored.value.is_per_kg = FALSE

TrimmedClientAndPerKgProduct ==
    /\ client_restored # None
    /\ made.value.phone # form.phone
    /\ made.value.email # form.email
    /\ made.value.email # <<>>
    /\ product_restored # None
    /\ product.value.is_per_kg
    /\ product.value.name # <<>>
    /\ product_data = Product_to_dict(product.value)

\* C22: Client(...) given phone = None raises ValueError, the error of any
\* other invalid phone, and the error names the phone.
NonePhoneIsValueError ==
    (client_args # None /\ client_args.phone = None) =>
        /\ made # None
        /\ ~made.ok
        /\ made.type = "ValueError"
        /\ made.field = "phone"

(***************************************************************************)
(* Properties of Order (OrderSpec).                                        *)
(***************************************************************************)
SameOrder(a, b) ==
    /\ a.number = b.number
    /\ a.client = b.client
    /\ a.products_list = b.products_list
    /\ DictEq(a.products_kg, b.products_kg)
    /\ a.date = b.date

RoundTripHolds ==
    /\ restored.ok
    /\ SameOrder(restored.value, order)
    /\ Order_total_cost(restored.value) = Order_total_cost(order)

RoundTripped == restored # None /\ data = Order_to_dict(order)

OrderProducts(o) ==
    {o.products_list[i] : i \in DOMAIN o.products_list} \cup DictKeys(o.products_kg)

CatalogProducts == {catalog[i] : i \in DOMAIN catalog}

\* The catalog holds every product of the order under a name of its own, the
\* weighed products are per-kg, and clients_map holds the order's client.
Resolvable ==
    /\ DictHas(clients_map, order.client.number)
    /\ DictGet(clients_map, order.client.number) = order.client
    /\ OrderProducts(order) \subseteq CatalogProducts
    /\ \A i, j \in DOMAIN catalog : catalog[i].name = catalog[j].name => i = j
    /\ \A p \in DictKeys(order.products_kg) : p.is_per_kg

\* C5 as stated: with any catalog and any clients_map that has the client's
\* number, from_dict(to_dict(o)) has o's fields and o's total_cost.
RoundTripAnyCatalog ==
    (RoundTripped /\ DictHas(clients_map, order.client.number)) => RoundTripHolds

\* C5, amended: from_dict(to_dict(o)) has o's fields and o's total_cost when
\* the catalog holds every product of o, no two catalog products share a name,
\* every key of products_kg is per-kg and clients_map maps the client's number
\* to o's client.
RoundTripResolvable == (RoundTripped /\ Resolvable) => RoundTripHolds

RoundTripOfMixedOrder ==
    /\ RoundTripped
    /\ Resolvable
    /\ order.products_list = <<Laptop, Laptop>>
    /\ order.products_kg = <<<<Sugar, 7>>>>
    /\ order.date.microsecond # 0
    /\ restored.ok

Abs(x) == IF x < 0 THEN -x ELSE x

\* The sum of the line items, in eighths, product by product.
LineItemsTotal(o) ==
    LET units(p) == Cardinality({i \in DOMAIN o.products_list : o.products_list[i] = p})
        kg(p) == IF DictHas(o.products_kg, p) THEN DictGet(o.products_kg, p) ELSE 0
        line(p) == p.price * (2 * units(p) + kg(p))
    IN  line(Laptop) + line(Sugar) + line(SugarB)

\* C8: total_cost is the sum of the listed prices (a product listed k times
\* counting k times) plus price x kg of every weighed entry, rounded to the
\* nearest hundredth (an exact half going to the even hundredth); [p1, p1]
\* costs 2 * p1.price, {Sugar(50): 5} costs 250.0 and [Notebook(75000)] with
\* {Sugar(50): 3.5} costs 75175.0.
TotalCostIsRoundedSum ==
    order # None =>
        LET cost == Order_total_cost(order)
            off == 8 * cost - 100 * LineItemsTotal(order)
        IN  /\ Abs(off) <= 4
            /\ Abs(off) = 4 => cost % 2 = 0
            /\ (order.products_list = <<Laptop, Laptop>> /\ order.products_kg = <<>>)
                   => cost = 2 * 7500000
            /\ (order.products_list = <<>> /\ order.products_kg = <<<<Sugar, 10>>>>)
                   => cost = 25000
            /\ (order.products_list = <<Laptop>> /\ order.products_kg = <<<<Sugar, 7>>>>)
                   => cost = 7517500

\* 0.75 x 3.5 = 2.625, which is 2.62.
TotalCostOfExactHalf ==
    /\ order # None
    /\ order.products_list = <<>>
    /\ order.products_kg = <<<<SugarB, 7>>>>
    /\ Order_total_cost(order) = 262

FirstNamed(name) ==
    catalog[CHOOSE i \in DOMAIN catalog :
                /\ catalog[i].name = name
                /\ \A j \in DOMAIN catalog : catalog[j].name = name => i <= j]

\* C9: every product of the order from_dict returns is the first product of
\* the catalog that has its name.
FirstOccurrenceWins ==
    (restored # None /\ restored.ok) =>
        \A p \in OrderProducts(restored.value) : p = FirstNamed(p.name)

\* C10: from_dict raises, and returns no Order, when data["client_number"] is
\* no key of clients_map, whatever the record's product names and date are.
UnknownClientRaises ==
    (restored # None /\ ~DictHas(clients_map, data.client_number)) =>
        /\ ~restored.ok
        /\ restored.value = None
        /\ restored.type = "KeyError"

UnknownClientAndBadDate ==
    /\ restored # None
    /\ ~DictHas(clients_map, data.client_number)
    /\ ~data.date.wellformed
    /\ data.products_list # <<>>
    /\ ~restored.ok

\* What Order.to_dict has to return for the order o, the weight entries apart.
StoredByReference(o, d) ==
    /\ d.number = o.number
    /\ d.client_number = o.client.number
    /\ DOMAIN d = {"number", "client_number", "products_list", "products_kg", "date"}
    /\ Len(d.products_list) = Len(o.products_list)
    /\ \A i \in DOMAIN o.products_list : d.products_list[i] = o.products_list[i].name
    /\ \A i \in DOMAIN d.products_kg :
          \E j \in DOMAIN o.products_kg :
              d.products_kg[i] = <<o.products_kg[j][1].name, o.products_kg[j][2]>>
    /\ d.date.wellformed
    /\ fromisoformat(d.date) = Returned(o.date)

\* C21: Order.to_dict returns number, client_number = the client's number and
\* no client record, products_list as the products' names in their places,
\* duplicates kept, products_kg as a mapping from name to kilograms with one
\* entry per weight item, and date as an ISO-8601 text; the order is unchanged.
ToDictByReference ==
    [][ToDict =>
          /\ StoredByReference(order, data')
          /\ Len(data'.products_kg) = Len(order.products_kg)
          /\ \A j \in DOMAIN order.products_kg :
                /\ DictHas(data'.products_kg, order.products_kg[j][1].name)
                /\ DictGet(data'.products_kg, order.products_kg[j][1].name)
                      = order.products_kg[j][2]
          /\ order' = order]_vars

\* The same with one entry per name of a weight item.
ToDictByName ==
    [][ToDict =>
          /\ StoredByReference(order, data')
          /\ DictKeys(data'.products_kg) = {order.products_kg[j][1].name : j \in DOMAIN order.products_kg}
          /\ order' = order]_vars

\* C24: no product sold per kg is in products_list of an Order made by the
\* constructor or by Order.from_dict, and no product sold per unit is a key of
\* products_kg of an Order made by the constructor: building such an order
\* fails instead.
UnitWeightSeparation ==
    /\ order # None =>
          /\ \A i \in DOMAIN order.products_list : ~order.products_list[i].is_per_kg
          /\ \A j \in DOMAIN order.products_kg : order.products_kg[j][1].is_per_kg
    /\ (restored # None /\ restored.ok) =>
          \A i \in DOMAIN restored.value.products_list :
              ~restored.value.products_list[i].is_per_kg

\* C25: every key of products_kg of the Order returned by Order.from_dict is a
\* product of the catalog sold per kg; a stored weight entry is kept iff its
\* name is in the catalog and resolves to a product sold per kg, and the other
\* entries are dropped without an error.
WeightKeysArePerKg ==
    (restored # None /\ DictIndex(clients_map, data.client_number).ok /\ data.date.wellformed) =>
        /\ restored.ok
        /\ \A j \in DOMAIN restored.value.products_kg :
              /\ restored.value.products_kg[j][1].is_per_kg
              /\ \E k \in DOMAIN catalog : catalog[k] = restored.value.products_kg[j][1]
        /\ \A i \in DOMAIN data.products_kg :
              LET name == data.products_kg[i][1]
                  named == {k \in DOMAIN catalog : catalog[k].name = name}
                  resolved == catalog[CHOOSE k \in named : \A m \in named : m <= k]
              IN  (named # {} /\ resolved.is_per_kg)
                    <=> \E j \in DOMAIN restored.value.products_kg :
                            /\ restored.value.products_kg[j][1].name = name
                            /\ restored.value.products_kg[j][2] = data.products_kg[i][2]

WeightEntryDropped ==
    /\ restored # None
    /\ restored.ok
    /\ Len(data.products_kg) = 2
    /\ Len(restored.value.products_kg) = 1
    /\ \E i \in DOMAIN data.products_kg : data.products_kg[i][1] = "Notebook"
    /\ \E k \in DOMAIN catalog : catalog[k].name = "Notebook"

\* The stored names the catalog knows, in their stored order.
KnownNames == SelectSeq(data.products_list, LAMBDA n : \E k \in DOMAIN catalog : catalog[k].name = n)

\* C26: Order.from_dict never raises for a product name the catalog lacks; the
\* restored products_list is the stored names that are in the catalog, in
\* their order and with duplicates, each as a catalog product of that name, and
\* so no longer than the stored list.
LenientListResolution ==
    (restored # None /\ DictIndex(clients_map, data.client_number).ok /\ data.date.wellformed) =>
        /\ restored.ok
        /\ Len(restored.value.products_list) = Len(KnownNames)
        /\ \A i \in DOMAIN KnownNames :
              /\ restored.value.products_list[i].name = KnownNames[i]
              /\ \E k \in DOMAIN catalog : catalog[k] = restored.value.products_list[i]
        /\ Len(restored.value.products_list) <= Len(data.products_list)

UnknownNameAfterDuplicates ==
    /\ restored # None
    /\ restored.ok
    /\ Len(data.products_list) = 3
    /\ data.products_list[1] = data.products_list[2]
    /\ data.products_list[3] = "Ghost"
    /\ Len(restored.value.products_list) = 2

(***************************************************************************)
(* Properties of the repository of shop_gui_spices.py (SpiceSpec).         *)
(***************************************************************************)
SavedNumbers(file) ==
    IF file.exists /\ file.kind = "list"
    THEN [i \in DOMAIN file.content |-> file.content[i].number]
    ELSE <<>>

RECURSIVE MaxOf(_)
MaxOf(numbers) == IF numbers = <<>> THEN 0 ELSE Max2(numbers[1], MaxOf(Tail(numbers)))

\* C28: FileDatabase() of shop_gui_spices on a folder the application wrote
\* raises nothing and has the clients and orders with the saved numbers and
\* the counters one above the largest of them; with a catalog.json that is no
\* JSON, or lacks a product an order names, a collection is empty instead.
SpiceLoadNeverAborts ==
    /\ ~Crashed
    /\ (last_call = "FileDatabase" /\ catalog_file.kind = "list"
            /\ Len(catalog_file.content) = Len(DefaultCatalog)) =>
          /\ spice_numbers(clients) = Returned(SavedNumbers(clients_file))
          /\ spice_numbers(orders) = Returned(SavedNumbers(orders_file))
          /\ next_client_id = MaxOf(SavedNumbers(clients_file)) + 1
          /\ next_order_id = MaxOf(SavedNumbers(orders_file)) + 1

(***************************************************************************)
(* Properties of the order form (ClassicSpec).                             *)
(***************************************************************************)
\* The segments of the products field: its parts between ";", trimmed, the
\* empty ones left out.
Segments(text) ==
    {strip(split(strip(text), ";")[i]) : i \in DOMAIN split(strip(text), ";")} \ {<<>>}

\* "Name, price": a name, a comma and a number.
NameAndPrice(segment) ==
    \E at \in DOMAIN segment :
        /\ segment[at] = ","
        /\ strip(SubSeq(segment, 1, at - 1)) # <<>>
        /\ float([str |-> SubSeq(segment, at + 1, Len(segment))]).ok

ClientOfForm == \E i \in DOMAIN clients : int(entry_client_id) = Returned(clients[i].number)

\* C23: when a segment of "Name, price; Name2, price2" is not a name and a
\* numeric price, add_order shows an error that names such a segment, appends
\* no order and leaves next_order_id as it was.
MalformedSegmentFails ==
    [][(classic_add_order /\ ClientOfForm
          /\ \E seg \in Segments(entry_products) : ~NameAndPrice(seg)) =>
            /\ messagebox' # None
            /\ messagebox'.call = "showerror"
            /\ messagebox'.part \in {seg \in Segments(entry_products) : ~NameAndPrice(seg)}
            /\ orders' = orders
            /\ next_order_id' = next_order_id]_vars

\* The same for the segments whose price is given and is no number.
NonNumericPriceFails ==
    [][(classic_add_order /\ ClientOfForm
          /\ \E seg \in Segments(entry_products) :
                Len(split(seg, ",")) > 1 /\ ~float([str |-> split(seg, ",")[Len(split(seg, ","))]]).ok) =>
            /\ messagebox' # None
            /\ messagebox'.call = "showerror"
            /\ messagebox'.part \in Segments(entry_products)
            /\ orders' = orders
            /\ next_order_id' = next_order_id]_vars

(***************************************************************************)
(* Properties of Client (ClientSpec).                                      *)
(***************************************************************************)
PlusSevenTenDigits(p) ==
    /\ Len(p) = 12
    /\ p[1] = "+"
    /\ p[2] = "7"
    /\ \A i \in 3..12 : p[i] \in Digits

\* C6: with a valid or empty email, Client(...) is created iff the trimmed
\* phone is empty or "+7" and exactly 10 digits; otherwise it raises ValueError
\* for the phone, echoing the trimmed phone, and no Client is created.
PhoneValidation ==
    (made # None /\ form.email \in FixedEmails) =>
        LET p == strip(form.phone)
        IN  /\ made.ok <=> (p = <<>> \/ PlusSevenTenDigits(p))
            /\ made.ok => made.value.phone = p
            /\ ~made.ok =>
                  /\ made.value = None
                  /\ made.type = "ValueError"
                  /\ made.field = "phone"
                  /\ made.echo = p

ElevenDigitsRejected ==
    /\ made # None
    /\ form.email = ValidEmail
    /\ Len(form.phone) = 13
    /\ PlusSevenTenDigits(SubSeq(form.phone, 1, 12))
    /\ form.phone[13] \in Digits
    /\ ~made.ok

Places(s, c) == {i \in DOMAIN s : s[i] = c}

\* local@domain.tld: one "@", a local part of one or more of [A-Za-z0-9._%+-],
\* a domain of two or more labels of [A-Za-z0-9-] with one dot between them,
\* the last of them two or more letters.
WellFormedEmail(e) ==
    /\ Cardinality(Places(e, "@")) = 1
    /\ LET at == CHOOSE i \in Places(e, "@") : TRUE
           dots == {i \in Places(e, ".") : i > at}
       IN  /\ at > 1
           /\ AllIn(e, 1, at - 1, LocalChars)
           /\ AllIn(e, at + 1, Len(e), DomainChars)
           /\ dots # {}
           /\ at + 1 \notin dots
           /\ \A i \in dots : i + 1 \notin dots
           /\ LET last == CHOOSE i \in dots : \A j \in dots : j <= i
              IN  /\ Len(e) - last >= 2
                  /\ AllIn(e, last + 1, Len(e), TldChars)

\* C7: with a valid or empty phone, Client(...) is created iff the trimmed,
\* lower-cased email is empty or of the form local@domain.tld; an email with
\* consecutive dots, a missing or doubled "@", an empty local part, a missing
\* or one-letter TLD, a space inside or a letter outside ASCII raises
\* ValueError for the email.
EmailValidation ==
    (made # None /\ form.phone \in FixedPhones) =>
        LET e == lower(strip(form.email))
        IN  /\ made.ok <=> (e = <<>> \/ WellFormedEmail(e))
            /\ (\E i \in DOMAIN e : e[i] = "." /\ i < Len(e) /\ e[i + 1] = ".") => ~made.ok
            /\ ~made.ok => (made.type = "ValueError" /\ made.field = "email")

====
